---- MODULE Spec2Model ----
(***************************************************************************)
(* A model of the claims validation engine: claim ingestion, the rule      *)
(* engine (technical, medical and identifier rules), the augmentation      *)
(* opinion, the validation run of a tenant and its bulk update.            *)
(*                                                                         *)
(* Strings of the claim (identifiers, codes, approval number) and the      *)
(* error messages are sequences of one-character strings; members of an    *)
(* enumeration and fixed texts are atomic strings.                         *)
(* Amounts are whole AED.  A finding (one error string of the code) is a   *)
(* record naming the message and the values the message embeds.            *)
(***************************************************************************)
EXTENDS Integers, Sequences, FiniteSets, TLC

(***************************************************************************)
(* Python string operations used by the code                               *)
(***************************************************************************)
UpperChars == <<"A", "B", "C", "D", "E", "F", "G", "H", "I", "J", "K", "L", "M",
                "N", "O", "P", "Q", "R", "S", "T", "U", "V", "W", "X", "Y", "Z">>
LowerChars == <<"a", "b", "c", "d", "e", "f", "g", "h", "i", "j", "k", "l", "m",
                "n", "o", "p", "q", "r", "s", "t", "u", "v", "w", "x", "y", "z">>
DigitChars == <<"0", "1", "2", "3", "4", "5", "6", "7", "8", "9">>
\* A character is written as itself when it is a printable character of
\* Latin-1 or has a TLA+ escape ("\t", "\n", "\r", "\f"), and as its Python
\* escape otherwise: "\\x0b" is the one character VT, "\\u03a3" the capital
\* sigma, "\\U00010400" a character outside the basic plane; the backquote,
\* which a TLA+ string cannot hold, is "\\x60".

\* The alphabet of the model's strings: Latin-1, the Greek block, the white
\* space of str.isspace(), and some characters of other kinds (case mappings
\* of two and three characters, title case, letters and digits of other
\* scripts, a character outside the basic plane), closed under str.upper()
\* and str.lower().  The tables below are those of Python 3.11 (Unicode 14.0)
\* on this alphabet; the str operations are defined on its characters only.
Chars ==
    {"\\x00", "\\x01", "\\x02", "\\x03", "\\x04", "\\x05", "\\x06", "\\x07",
     "\\x08", "\t", "\n", "\\x0b", "\f", "\r", "\\x0e", "\\x0f", "\\x10",
     "\\x11", "\\x12", "\\x13", "\\x14", "\\x15", "\\x16", "\\x17", "\\x18",
     "\\x19", "\\x1a", "\\x1b", "\\x1c", "\\x1d", "\\x1e", "\\x1f", " ", "!",
     "\"", "#", "$", "%", "&", "'", "(", ")", "*", "+", ",", "-", ".", "/",
     "0", "1", "2", "3", "4", "5", "6", "7", "8", "9", ":", ";", "<", "=",
     ">", "?", "@", "A", "B", "C", "D", "E", "F", "G", "H", "I", "J", "K",
     "L", "M", "N", "O", "P", "Q", "R", "S", "T", "U", "V", "W", "X", "Y",
     "Z", "[", "\\", "]", "^", "_", "\\x60", "a", "b", "c", "d", "e", "f",
     "g", "h", "i", "j", "k", "l", "m", "n", "o", "p", "q", "r", "s", "t",
     "u", "v", "w", "x", "y", "z", "{", "|", "}", "~", "\\x7f", "\\x80",
     "\\x81", "\\x82", "\\x83", "\\x84", "\\x85", "\\x86", "\\x87", "\\x88",
     "\\x89", "\\x8a", "\\x8b", "\\x8c", "\\x8d", "\\x8e", "\\x8f", "\\x90",
     "\\x91", "\\x92", "\\x93", "\\x94", "\\x95", "\\x96", "\\x97", "\\x98",
     "\\x99", "\\x9a", "\\x9b", "\\x9c", "\\x9d", "\\x9e", "\\x9f", "\\xa0",
     "¡", "¢", "£", "¤", "¥", "¦", "§", "¨", "©", "ª", "«", "¬", "\\xad", "®",
     "¯", "°", "±", "²", "³", "´", "µ", "¶", "·", "¸", "¹", "º", "»", "¼",
     "½", "¾", "¿", "À", "Á", "Â", "Ã", "Ä", "Å", "Æ", "Ç", "È", "É", "Ê",
     "Ë", "Ì", "Í", "Î", "Ï", "Ð", "Ñ", "Ò", "Ó", "Ô", "Õ", "Ö", "×", "Ø",
     "Ù", "Ú", "Û", "Ü", "Ý", "Þ", "ß", "à", "á", "â", "ã", "ä", "å", "æ",
     "ç", "è", "é", "ê", "ë", "ì", "í", "î", "ï", "ð", "ñ", "ò", "ó", "ô",
     "õ", "ö", "÷", "ø", "ù", "ú", "û", "ü", "ý", "þ", "ÿ", "\\u0130",
     "\\u0131", "\\u0149", "\\u0178", "\\u017f", "\\u01c4", "\\u01c5",
     "\\u01c6", "\\u02bc", "\\u0301", "\\u0307", "\\u0308", "\\u0342",
     "\\u0370", "\\u0371", "\\u0372", "\\u0373", "\\u0374", "\\u0375",
     "\\u0376", "\\u0377", "\\u0378", "\\u0379", "\\u037a", "\\u037b",
     "\\u037c", "\\u037d", "\\u037e", "\\u037f", "\\u0380", "\\u0381",
     "\\u0382", "\\u0383", "\\u0384", "\\u0385", "\\u0386", "\\u0387",
     "\\u0388", "\\u0389", "\\u038a", "\\u038b", "\\u038c", "\\u038d",
     "\\u038e", "\\u038f", "\\u0390", "\\u0391", "\\u0392", "\\u0393",
     "\\u0394", "\\u0395", "\\u0396", "\\u0397", "\\u0398", "\\u0399",
     "\\u039a", "\\u039b", "\\u039c", "\\u039d", "\\u039e", "\\u039f",
     "\\u03a0", "\\u03a1", "\\u03a2", "\\u03a3", "\\u03a4", "\\u03a5",
     "\\u03a6", "\\u03a7", "\\u03a8", "\\u03a9", "\\u03aa", "\\u03ab",
     "\\u03ac", "\\u03ad", "\\u03ae", "\\u03af", "\\u03b0", "\\u03b1",
     "\\u03b2", "\\u03b3", "\\u03b4", "\\u03b5", "\\u03b6", "\\u03b7",
     "\\u03b8", "\\u03b9", "\\u03ba", "\\u03bb", "\\u03bc", "\\u03bd",
     "\\u03be", "\\u03bf", "\\u03c0", "\\u03c1", "\\u03c2", "\\u03c3",
     "\\u03c4", "\\u03c5", "\\u03c6", "\\u03c7", "\\u03c8", "\\u03c9",
     "\\u03ca", "\\u03cb", "\\u03cc", "\\u03cd", "\\u03ce", "\\u03cf",
     "\\u03d0", "\\u03d1", "\\u03d2", "\\u03d3", "\\u03d4", "\\u03d5",
     "\\u03d6", "\\u03d7", "\\u03d8", "\\u03d9", "\\u03da", "\\u03db",
     "\\u03dc", "\\u03dd", "\\u03de", "\\u03df", "\\u03e0", "\\u03e1",
     "\\u03e2", "\\u03e3", "\\u03e4", "\\u03e5", "\\u03e6", "\\u03e7",
     "\\u03e8", "\\u03e9", "\\u03ea", "\\u03eb", "\\u03ec", "\\u03ed",
     "\\u03ee", "\\u03ef", "\\u03f0", "\\u03f1", "\\u03f2", "\\u03f3",
     "\\u03f4", "\\u03f5", "\\u03f6", "\\u03f7", "\\u03f8", "\\u03f9",
     "\\u03fa", "\\u03fb", "\\u03fc", "\\u03fd", "\\u03fe", "\\u03ff",
     "\\u0416", "\\u0436", "\\u0663", "\\u1680", "\\u1e9e", "\\u2000",
     "\\u2001", "\\u2002", "\\u2003", "\\u2004", "\\u2005", "\\u2006",
     "\\u2007", "\\u2008", "\\u2009", "\\u200a", "\\u2028", "\\u2029",
     "\\u202f", "\\u205f", "\\u212a", "\\u2167", "\\u2177", "\\u2460",
     "\\u24b6", "\\u24d0", "\\u3000", "\\u4e2d", "\\ufb01", "\\U00010400",
     "\\U00010428"}

\* c for a character of the alphabet; no value for any other
char == [c \in Chars |-> c]

\* The characters c with c.isspace(), which str.strip() removes.
WhitespaceChars ==
    {"\t", "\n", "\\x0b", "\f", "\r", "\\x1c", "\\x1d", "\\x1e", "\\x1f", " ",
     "\\x85", "\\xa0", "\\u1680", "\\u2000", "\\u2001", "\\u2002", "\\u2003",
     "\\u2004", "\\u2005", "\\u2006", "\\u2007", "\\u2008", "\\u2009",
     "\\u200a", "\\u2028", "\\u2029", "\\u202f", "\\u205f", "\\u3000"}

Range(s) == {s[i] : i \in DOMAIN s}
InSeq(x, s) == \E i \in DOMAIN s : s[i] = x

\* Every character c that str.upper() or str.lower() changes, six entries
\* for each: c, the up to three characters of c.upper() and the up to two
\* characters of c.lower(), "" where there is none (the sharp s has the
\* upper case "SS": "ß", "S", "S", "", "ß", "").
UnicodeCases ==
    <<"A", "A", "", "", "a", "",
     "B", "B", "", "", "b", "",
     "C", "C", "", "", "c", "",
     "D", "D", "", "", "d", "",
     "E", "E", "", "", "e", "",
     "F", "F", "", "", "f", "",
     "G", "G", "", "", "g", "",
     "H", "H", "", "", "h", "",
     "I", "I", "", "", "i", "",
     "J", "J", "", "", "j", "",
     "K", "K", "", "", "k", "",
     "L", "L", "", "", "l", "",
     "M", "M", "", "", "m", "",
     "N", "N", "", "", "n", "",
     "O", "O", "", "", "o", "",
     "P", "P", "", "", "p", "",
     "Q", "Q", "", "", "q", "",
     "R", "R", "", "", "r", "",
     "S", "S", "", "", "s", "",
     "T", "T", "", "", "t", "",
     "U", "U", "", "", "u", "",
     "V", "V", "", "", "v", "",
     "W", "W", "", "", "w", "",
     "X", "X", "", "", "x", "",
     "Y", "Y", "", "", "y", "",
     "Z", "Z", "", "", "z", "",
     "a", "A", "", "", "a", "",
     "b", "B", "", "", "b", "",
     "c", "C", "", "", "c", "",
     "d", "D", "", "", "d", "",
     "e", "E", "", "", "e", "",
     "f", "F", "", "", "f", "",
     "g", "G", "", "", "g", "",
     "h", "H", "", "", "h", "",
     "i", "I", "", "", "i", "",
     "j", "J", "", "", "j", "",
     "k", "K", "", "", "k", "",
     "l", "L", "", "", "l", "",
     "m", "M", "", "", "m", "",
     "n", "N", "", "", "n", "",
     "o", "O", "", "", "o", "",
     "p", "P", "", "", "p", "",
     "q", "Q", "", "", "q", "",
     "r", "R", "", "", "r", "",
     "s", "S", "", "", "s", "",
     "t", "T", "", "", "t", "",
     "u", "U", "", "", "u", "",
     "v", "V", "", "", "v", "",
     "w", "W", "", "", "w", "",
     "x", "X", "", "", "x", "",
     "y", "Y", "", "", "y", "",
     "z", "Z", "", "", "z", "",
     "µ", "\\u039c", "", "", "µ", "",
     "À", "À", "", "", "à", "",
     "Á", "Á", "", "", "á", "",
     "Â", "Â", "", "", "â", "",
     "Ã", "Ã", "", "", "ã", "",
     "Ä", "Ä", "", "", "ä", "",
     "Å", "Å", "", "", "å", "",
     "Æ", "Æ", "", "", "æ", "",
     "Ç", "Ç", "", "", "ç", "",
     "È", "È", "", "", "è", "",
     "É", "É", "", "", "é", "",
     "Ê", "Ê", "", "", "ê", "",
     "Ë", "Ë", "", "", "ë", "",
     "Ì", "Ì", "", "", "ì", "",
     "Í", "Í", "", "", "í", "",
     "Î", "Î", "", "", "î", "",
     "Ï", "Ï", "", "", "ï", "",
     "Ð", "Ð", "", "", "ð", "",
     "Ñ", "Ñ", "", "", "ñ", "",
     "Ò", "Ò", "", "", "ò", "",
     "Ó", "Ó", "", "", "ó", "",
     "Ô", "Ô", "", "", "ô", "",
     "Õ", "Õ", "", "", "õ", "",
     "Ö", "Ö", "", "", "ö", "",
     "Ø", "Ø", "", "", "ø", "",
     "Ù", "Ù", "", "", "ù", "",
     "Ú", "Ú", "", "", "ú", "",
     "Û", "Û", "", "", "û", "",
     "Ü", "Ü", "", "", "ü", "",
     "Ý", "Ý", "", "", "ý", "",
     "Þ", "Þ", "", "", "þ", "",
     "ß", "S", "S", "", "ß", "",
     "à", "À", "", "", "à", "",
     "á", "Á", "", "", "á", "",
     "â", "Â", "", "", "â", "",
     "ã", "Ã", "", "", "ã", "",
     "ä", "Ä", "", "", "ä", "",
     "å", "Å", "", "", "å", "",
     "æ", "Æ", "", "", "æ", "",
     "ç", "Ç", "", "", "ç", "",
     "è", "È", "", "", "è", "",
     "é", "É", "", "", "é", "",
     "ê", "Ê", "", "", "ê", "",
     "ë", "Ë", "", "", "ë", "",
     "ì", "Ì", "", "", "ì", "",
     "í", "Í", "", "", "í", "",
     "î", "Î", "", "", "î", "",
     "ï", "Ï", "", "", "ï", "",
     "ð", "Ð", "", "", "ð", "",
     "ñ", "Ñ", "", "", "ñ", "",
     "ò", "Ò", "", "", "ò", "",
     "ó", "Ó", "", "", "ó", "",
     "ô", "Ô", "", "", "ô", "",
     "õ", "Õ", "", "", "õ", "",
     "ö", "Ö", "", "", "ö", "",
     "ø", "Ø", "", "", "ø", "",
     "ù", "Ù", "", "", "ù", "",
     "ú", "Ú", "", "", "ú", "",
     "û", "Û", "", "", "û", "",
     "ü", "Ü", "", "", "ü", "",
     "ý", "Ý", "", "", "ý", "",
     "þ", "Þ", "", "", "þ", "",
     "ÿ", "\\u0178", "", "", "ÿ", "",
     "\\u0130", "\\u0130", "", "", "i", "\\u0307",
     "\\u0131", "I", "", "", "\\u0131", "",
     "\\u0149", "\\u02bc", "N", "", "\\u0149", "",
     "\\u0178", "\\u0178", "", "", "ÿ", "",
     "\\u017f", "S", "", "", "\\u017f", "",
     "\\u01c4", "\\u01c4", "", "", "\\u01c6", "",
     "\\u01c5", "\\u01c4", "", "", "\\u01c6", "",
     "\\u01c6", "\\u01c4", "", "", "\\u01c6", "",
     "\\u0370", "\\u0370", "", "", "\\u0371", "",
     "\\u0371", "\\u0370", "", "", "\\u0371", "",
     "\\u0372", "\\u0372", "", "", "\\u0373", "",
     "\\u0373", "\\u0372", "", "", "\\u0373", "",
     "\\u0376", "\\u0376", "", "", "\\u0377", "",
     "\\u0377", "\\u0376", "", "", "\\u0377", "",
     "\\u037b", "\\u03fd", "", "", "\\u037b", "",
     "\\u037c", "\\u03fe", "", "", "\\u037c", "",
     "\\u037d", "\\u03ff", "", "", "\\u037d", "",
     "\\u037f", "\\u037f", "", "", "\\u03f3", "",
     "\\u0386", "\\u0386", "", "", "\\u03ac", "",
     "\\u0388", "\\u0388", "", "", "\\u03ad", "",
     "\\u0389", "\\u0389", "", "", "\\u03ae", "",
     "\\u038a", "\\u038a", "", "", "\\u03af", "",
     "\\u038c", "\\u038c", "", "", "\\u03cc", "",
     "\\u038e", "\\u038e", "", "", "\\u03cd", "",
     "\\u038f", "\\u038f", "", "", "\\u03ce", "",
     "\\u0390", "\\u0399", "\\u0308", "\\u0301", "\\u0390", "",
     "\\u0391", "\\u0391", "", "", "\\u03b1", "",
     "\\u0392", "\\u0392", "", "", "\\u03b2", "",
     "\\u0393", "\\u0393", "", "", "\\u03b3", "",
     "\\u0394", "\\u0394", "", "", "\\u03b4", "",
     "\\u0395", "\\u0395", "", "", "\\u03b5", "",
     "\\u0396", "\\u0396", "", "", "\\u03b6", "",
     "\\u0397", "\\u0397", "", "", "\\u03b7", "",
     "\\u0398", "\\u0398", "", "", "\\u03b8", "",
     "\\u0399", "\\u0399", "", "", "\\u03b9", "",
     "\\u039a", "\\u039a", "", "", "\\u03ba", "",
     "\\u039b", "\\u039b", "", "", "\\u03bb", "",
     "\\u039c", "\\u039c", "", "", "\\u03bc", "",
     "\\u039d", "\\u039d", "", "", "\\u03bd", "",
     "\\u039e", "\\u039e", "", "", "\\u03be", "",
     "\\u039f", "\\u039f", "", "", "\\u03bf", "",
     "\\u03a0", "\\u03a0", "", "", "\\u03c0", "",
     "\\u03a1", "\\u03a1", "", "", "\\u03c1", "",
     "\\u03a3", "\\u03a3", "", "", "\\u03c3", "",
     "\\u03a4", "\\u03a4", "", "", "\\u03c4", "",
     "\\u03a5", "\\u03a5", "", "", "\\u03c5", "",
     "\\u03a6", "\\u03a6", "", "", "\\u03c6", "",
     "\\u03a7", "\\u03a7", "", "", "\\u03c7", "",
     "\\u03a8", "\\u03a8", "", "", "\\u03c8", "",
     "\\u03a9", "\\u03a9", "", "", "\\u03c9", "",
     "\\u03aa", "\\u03aa", "", "", "\\u03ca", "",
     "\\u03ab", "\\u03ab", "", "", "\\u03cb", "",
     "\\u03ac", "\\u0386", "", "", "\\u03ac", "",
     "\\u03ad", "\\u0388", "", "", "\\u03ad", "",
     "\\u03ae", "\\u0389", "", "", "\\u03ae", "",
     "\\u03af", "\\u038a", "", "", "\\u03af", "",
     "\\u03b0", "\\u03a5", "\\u0308", "\\u0301", "\\u03b0", "",
     "\\u03b1", "\\u0391", "", "", "\\u03b1", "",
     "\\u03b2", "\\u0392", "", "", "\\u03b2", "",
     "\\u03b3", "\\u0393", "", "", "\\u03b3", "",
     "\\u03b4", "\\u0394", "", "", "\\u03b4", "",
     "\\u03b5", "\\u0395", "", "", "\\u03b5", "",
     "\\u03b6", "\\u0396", "", "", "\\u03b6", "",
     "\\u03b7", "\\u0397", "", "", "\\u03b7", "",
     "\\u03b8", "\\u0398", "", "", "\\u03b8", "",
     "\\u03b9", "\\u0399", "", "", "\\u03b9", "",
     "\\u03ba", "\\u039a", "", "", "\\u03ba", "",
     "\\u03bb", "\\u039b", "", "", "\\u03bb", "",
     "\\u03bc", "\\u039c", "", "", "\\u03bc", "",
     "\\u03bd", "\\u039d", "", "", "\\u03bd", "",
     "\\u03be", "\\u039e", "", "", "\\u03be", "",
     "\\u03bf", "\\u039f", "", "", "\\u03bf", "",
     "\\u03c0", "\\u03a0", "", "", "\\u03c0", "",
     "\\u03c1", "\\u03a1", "", "", "\\u03c1", "",
     "\\u03c2", "\\u03a3", "", "", "\\u03c2", "",
     "\\u03c3", "\\u03a3", "", "", "\\u03c3", "",
     "\\u03c4", "\\u03a4", "", "", "\\u03c4", "",
     "\\u03c5", "\\u03a5", "", "", "\\u03c5", "",
     "\\u03c6", "\\u03a6", "", "", "\\u03c6", "",
     "\\u03c7", "\\u03a7", "", "", "\\u03c7", "",
     "\\u03c8", "\\u03a8", "", "", "\\u03c8", "",
     "\\u03c9", "\\u03a9", "", "", "\\u03c9", "",
     "\\u03ca", "\\u03aa", "", "", "\\u03ca", "",
     "\\u03cb", "\\u03ab", "", "", "\\u03cb", "",
     "\\u03cc", "\\u038c", "", "", "\\u03cc", "",
     "\\u03cd", "\\u038e", "", "", "\\u03cd", "",
     "\\u03ce", "\\u038f", "", "", "\\u03ce", "",
     "\\u03cf", "\\u03cf", "", "", "\\u03d7", "",
     "\\u03d0", "\\u0392", "", "", "\\u03d0", "",
     "\\u03d1", "\\u0398", "", "", "\\u03d1", "",
     "\\u03d5", "\\u03a6", "", "", "\\u03d5", "",
     "\\u03d6", "\\u03a0", "", "", "\\u03d6", "",
     "\\u03d7", "\\u03cf", "", "", "\\u03d7", "",
     "\\u03d8", "\\u03d8", "", "", "\\u03d9", "",
     "\\u03d9", "\\u03d8", "", "", "\\u03d9", "",
     "\\u03da", "\\u03da", "", "", "\\u03db", "",
     "\\u03db", "\\u03da", "", "", "\\u03db", "",
     "\\u03dc", "\\u03dc", "", "", "\\u03dd", "",
     "\\u03dd", "\\u03dc", "", "", "\\u03dd", "",
     "\\u03de", "\\u03de", "", "", "\\u03df", "",
     "\\u03df", "\\u03de", "", "", "\\u03df", "",
     "\\u03e0", "\\u03e0", "", "", "\\u03e1", "",
     "\\u03e1", "\\u03e0", "", "", "\\u03e1", "",
     "\\u03e2", "\\u03e2", "", "", "\\u03e3", "",
     "\\u03e3", "\\u03e2", "", "", "\\u03e3", "",
     "\\u03e4", "\\u03e4", "", "", "\\u03e5", "",
     "\\u03e5", "\\u03e4", "", "", "\\u03e5", "",
     "\\u03e6", "\\u03e6", "", "", "\\u03e7", "",
     "\\u03e7", "\\u03e6", "", "", "\\u03e7", "",
     "\\u03e8", "\\u03e8", "", "", "\\u03e9", "",
     "\\u03e9", "\\u03e8", "", "", "\\u03e9", "",
     "\\u03ea", "\\u03ea", "", "", "\\u03eb", "",
     "\\u03eb", "\\u03ea", "", "", "\\u03eb", "",
     "\\u03ec", "\\u03ec", "", "", "\\u03ed", "",
     "\\u03ed", "\\u03ec", "", "", "\\u03ed", "",
     "\\u03ee", "\\u03ee", "", "", "\\u03ef", "",
     "\\u03ef", "\\u03ee", "", "", "\\u03ef", "",
     "\\u03f0", "\\u039a", "", "", "\\u03f0", "",
     "\\u03f1", "\\u03a1", "", "", "\\u03f1", "",
     "\\u03f2", "\\u03f9", "", "", "\\u03f2", "",
     "\\u03f3", "\\u037f", "", "", "\\u03f3", "",
     "\\u03f4", "\\u03f4", "", "", "\\u03b8", "",
     "\\u03f5", "\\u0395", "", "", "\\u03f5", "",
     "\\u03f7", "\\u03f7", "", "", "\\u03f8", "",
     "\\u03f8", "\\u03f7", "", "", "\\u03f8", "",
     "\\u03f9", "\\u03f9", "", "", "\\u03f2", "",
     "\\u03fa", "\\u03fa", "", "", "\\u03fb", "",
     "\\u03fb", "\\u03fa", "", "", "\\u03fb", "",
     "\\u03fd", "\\u03fd", "", "", "\\u037b", "",
     "\\u03fe", "\\u03fe", "", "", "\\u037c", "",
     "\\u03ff", "\\u03ff", "", "", "\\u037d", "",
     "\\u0416", "\\u0416", "", "", "\\u0436", "",
     "\\u0436", "\\u0416", "", "", "\\u0436", "",
     "\\u1e9e", "\\u1e9e", "", "", "ß", "",
     "\\u212a", "\\u212a", "", "", "k", "",
     "\\u2167", "\\u2167", "", "", "\\u2177", "",
     "\\u2177", "\\u2167", "", "", "\\u2177", "",
     "\\u24b6", "\\u24b6", "", "", "\\u24d0", "",
     "\\u24d0", "\\u24b6", "", "", "\\u24d0", "",
     "\\ufb01", "F", "I", "", "\\ufb01", "",
     "\\U00010400", "\\U00010400", "", "", "\\U00010428", "",
     "\\U00010428", "\\U00010400", "", "", "\\U00010428", "">>

\* c.upper() and c.lower() of the characters of UnicodeCases, as one table
\* from c to <<c.upper(), c.lower()>>.
RECURSIVE case_pairs(_, _, _)
case_pairs(cases, first, last) ==
    IF first = last
    THEN LET NonEmpty(x) == x /= ""
             at(j) == cases[6 * (first - 1) + j]
         IN  at(1) :> <<SelectSeq(<<at(2), at(3), at(4)>>, NonEmpty),
                        SelectSeq(<<at(5), at(6)>>, NonEmpty)>>
    ELSE LET middle == (first + last) \div 2
         IN  case_pairs(cases, first, middle) @@ case_pairs(cases, middle + 1, last)
case_table == case_pairs(UnicodeCases, 1, Len(UnicodeCases) \div 6)
CaseMappedChars == DOMAIN case_table

\* The characters c.islower(), c.isupper() and c.istitle() hold for.
IsLowerChars ==
    {"a", "b", "c", "d", "e", "f", "g", "h", "i", "j", "k", "l", "m", "n",
     "o", "p", "q", "r", "s", "t", "u", "v", "w", "x", "y", "z", "ª", "µ",
     "º", "ß", "à", "á", "â", "ã", "ä", "å", "æ", "ç", "è", "é", "ê", "ë",
     "ì", "í", "î", "ï", "ð", "ñ", "ò", "ó", "ô", "õ", "ö", "ø", "ù", "ú",
     "û", "ü", "ý", "þ", "ÿ", "\\u0131", "\\u0149", "\\u017f", "\\u01c6",
     "\\u0371", "\\u0373", "\\u0377", "\\u037a", "\\u037b", "\\u037c",
     "\\u037d", "\\u0390", "\\u03ac", "\\u03ad", "\\u03ae", "\\u03af",
     "\\u03b0", "\\u03b1", "\\u03b2", "\\u03b3", "\\u03b4", "\\u03b5",
     "\\u03b6", "\\u03b7", "\\u03b8", "\\u03b9", "\\u03ba", "\\u03bb",
     "\\u03bc", "\\u03bd", "\\u03be", "\\u03bf", "\\u03c0", "\\u03c1",
     "\\u03c2", "\\u03c3", "\\u03c4", "\\u03c5", "\\u03c6", "\\u03c7",
     "\\u03c8", "\\u03c9", "\\u03ca", "\\u03cb", "\\u03cc", "\\u03cd",
     "\\u03ce", "\\u03d0", "\\u03d1", "\\u03d5", "\\u03d6", "\\u03d7",
     "\\u03d9", "\\u03db", "\\u03dd", "\\u03df", "\\u03e1", "\\u03e3",
     "\\u03e5", "\\u03e7", "\\u03e9", "\\u03eb", "\\u03ed", "\\u03ef",
     "\\u03f0", "\\u03f1", "\\u03f2", "\\u03f3", "\\u03f5", "\\u03f8",
     "\\u03fb", "\\u03fc", "\\u0436", "\\u2177", "\\u24d0", "\\ufb01",
     "\\U00010428"}
IsUpperChars ==
    {"A", "B", "C", "D", "E", "F", "G", "H", "I", "J", "K", "L", "M", "N",
     "O", "P", "Q", "R", "S", "T", "U", "V", "W", "X", "Y", "Z", "À", "Á",
     "Â", "Ã", "Ä", "Å", "Æ", "Ç", "È", "É", "Ê", "Ë", "Ì", "Í", "Î", "Ï",
     "Ð", "Ñ", "Ò", "Ó", "Ô", "Õ", "Ö", "Ø", "Ù", "Ú", "Û", "Ü", "Ý", "Þ",
     "\\u0130", "\\u0178", "\\u01c4", "\\u0370", "\\u0372", "\\u0376",
     "\\u037f", "\\u0386", "\\u0388", "\\u0389", "\\u038a", "\\u038c",
     "\\u038e", "\\u038f", "\\u0391", "\\u0392", "\\u0393", "\\u0394",
     "\\u0395", "\\u0396", "\\u0397", "\\u0398", "\\u0399", "\\u039a",
     "\\u039b", "\\u039c", "\\u039d", "\\u039e", "\\u039f", "\\u03a0",
     "\\u03a1", "\\u03a3", "\\u03a4", "\\u03a5", "\\u03a6", "\\u03a7",
     "\\u03a8", "\\u03a9", "\\u03aa", "\\u03ab", "\\u03cf", "\\u03d2",
     "\\u03d3", "\\u03d4", "\\u03d8", "\\u03da", "\\u03dc", "\\u03de",
     "\\u03e0", "\\u03e2", "\\u03e4", "\\u03e6", "\\u03e8", "\\u03ea",
     "\\u03ec", "\\u03ee", "\\u03f4", "\\u03f7", "\\u03f9", "\\u03fa",
     "\\u03fd", "\\u03fe", "\\u03ff", "\\u0416", "\\u1e9e", "\\u212a",
     "\\u2167", "\\u24b6", "\\U00010400"}
IsTitleChars ==
    {"\\u01c5"}
\* The characters str.lower() looks at around a capital sigma: those it
\* skips (case-ignorable) and, of the others, the cased ones.
CaseIgnorableChars ==
    {"'", ".", ":", "^", "\\x60", "¨", "\\xad", "¯", "´", "·", "¸", "\\u02bc",
     "\\u0301", "\\u0307", "\\u0308", "\\u0342", "\\u0374", "\\u0375",
     "\\u037a", "\\u0384", "\\u0385", "\\u0387"}
CasedChars ==
    {"A", "B", "C", "D", "E", "F", "G", "H", "I", "J", "K", "L", "M", "N",
     "O", "P", "Q", "R", "S", "T", "U", "V", "W", "X", "Y", "Z", "a", "b",
     "c", "d", "e", "f", "g", "h", "i", "j", "k", "l", "m", "n", "o", "p",
     "q", "r", "s", "t", "u", "v", "w", "x", "y", "z", "ª", "µ", "º", "À",
     "Á", "Â", "Ã", "Ä", "Å", "Æ", "Ç", "È", "É", "Ê", "Ë", "Ì", "Í", "Î",
     "Ï", "Ð", "Ñ", "Ò", "Ó", "Ô", "Õ", "Ö", "Ø", "Ù", "Ú", "Û", "Ü", "Ý",
     "Þ", "ß", "à", "á", "â", "ã", "ä", "å", "æ", "ç", "è", "é", "ê", "ë",
     "ì", "í", "î", "ï", "ð", "ñ", "ò", "ó", "ô", "õ", "ö", "ø", "ù", "ú",
     "û", "ü", "ý", "þ", "ÿ", "\\u0130", "\\u0131", "\\u0149", "\\u0178",
     "\\u017f", "\\u01c4", "\\u01c5", "\\u01c6", "\\u0370", "\\u0371",
     "\\u0372", "\\u0373", "\\u0376", "\\u0377", "\\u037b", "\\u037c",
     "\\u037d", "\\u037f", "\\u0386", "\\u0388", "\\u0389", "\\u038a",
     "\\u038c", "\\u038e", "\\u038f", "\\u0390", "\\u0391", "\\u0392",
     "\\u0393", "\\u0394", "\\u0395", "\\u0396", "\\u0397", "\\u0398",
     "\\u0399", "\\u039a", "\\u039b", "\\u039c", "\\u039d", "\\u039e",
     "\\u039f", "\\u03a0", "\\u03a1", "\\u03a3", "\\u03a4", "\\u03a5",
     "\\u03a6", "\\u03a7", "\\u03a8", "\\u03a9", "\\u03aa", "\\u03ab",
     "\\u03ac", "\\u03ad", "\\u03ae", "\\u03af", "\\u03b0", "\\u03b1",
     "\\u03b2", "\\u03b3", "\\u03b4", "\\u03b5", "\\u03b6", "\\u03b7",
     "\\u03b8", "\\u03b9", "\\u03ba", "\\u03bb", "\\u03bc", "\\u03bd",
     "\\u03be", "\\u03bf", "\\u03c0", "\\u03c1", "\\u03c2", "\\u03c3",
     "\\u03c4", "\\u03c5", "\\u03c6", "\\u03c7", "\\u03c8", "\\u03c9",
     "\\u03ca", "\\u03cb", "\\u03cc", "\\u03cd", "\\u03ce", "\\u03cf",
     "\\u03d0", "\\u03d1", "\\u03d2", "\\u03d3", "\\u03d4", "\\u03d5",
     "\\u03d6", "\\u03d7", "\\u03d8", "\\u03d9", "\\u03da", "\\u03db",
     "\\u03dc", "\\u03dd", "\\u03de", "\\u03df", "\\u03e0", "\\u03e1",
     "\\u03e2", "\\u03e3", "\\u03e4", "\\u03e5", "\\u03e6", "\\u03e7",
     "\\u03e8", "\\u03e9", "\\u03ea", "\\u03eb", "\\u03ec", "\\u03ed",
     "\\u03ee", "\\u03ef", "\\u03f0", "\\u03f1", "\\u03f2", "\\u03f3",
     "\\u03f4", "\\u03f5", "\\u03f7", "\\u03f8", "\\u03f9", "\\u03fa",
     "\\u03fb", "\\u03fc", "\\u03fd", "\\u03fe", "\\u03ff", "\\u0416",
     "\\u0436", "\\u1e9e", "\\u212a", "\\u2167", "\\u2177", "\\u24b6",
     "\\u24d0", "\\ufb01", "\\U00010400", "\\U00010428"}
\* The characters c.isalnum() holds for.
AlnumChars ==
    {"0", "1", "2", "3", "4", "5", "6", "7", "8", "9", "A", "B", "C", "D",
     "E", "F", "G", "H", "I", "J", "K", "L", "M", "N", "O", "P", "Q", "R",
     "S", "T", "U", "V", "W", "X", "Y", "Z", "a", "b", "c", "d", "e", "f",
     "g", "h", "i", "j", "k", "l", "m", "n", "o", "p", "q", "r", "s", "t",
     "u", "v", "w", "x", "y", "z", "ª", "²", "³", "µ", "¹", "º", "¼", "½",
     "¾", "À", "Á", "Â", "Ã", "Ä", "Å", "Æ", "Ç", "È", "É", "Ê", "Ë", "Ì",
     "Í", "Î", "Ï", "Ð", "Ñ", "Ò", "Ó", "Ô", "Õ", "Ö", "Ø", "Ù", "Ú", "Û",
     "Ü", "Ý", "Þ", "ß", "à", "á", "â", "ã", "ä", "å", "æ", "ç", "è", "é",
     "ê", "ë", "ì", "í", "î", "ï", "ð", "ñ", "ò", "ó", "ô", "õ", "ö", "ø",
     "ù", "ú", "û", "ü", "ý", "þ", "ÿ", "\\u0130", "\\u0131", "\\u0149",
     "\\u0178", "\\u017f", "\\u01c4", "\\u01c5", "\\u01c6", "\\u02bc",
     "\\u0370", "\\u0371", "\\u0372", "\\u0373", "\\u0374", "\\u0376",
     "\\u0377", "\\u037a", "\\u037b", "\\u037c", "\\u037d", "\\u037f",
     "\\u0386", "\\u0388", "\\u0389", "\\u038a", "\\u038c", "\\u038e",
     "\\u038f", "\\u0390", "\\u0391", "\\u0392", "\\u0393", "\\u0394",
     "\\u0395", "\\u0396", "\\u0397", "\\u0398", "\\u0399", "\\u039a",
     "\\u039b", "\\u039c", "\\u039d", "\\u039e", "\\u039f", "\\u03a0",
     "\\u03a1", "\\u03a3", "\\u03a4", "\\u03a5", "\\u03a6", "\\u03a7",
     "\\u03a8", "\\u03a9", "\\u03aa", "\\u03ab", "\\u03ac", "\\u03ad",
     "\\u03ae", "\\u03af", "\\u03b0", "\\u03b1", "\\u03b2", "\\u03b3",
     "\\u03b4", "\\u03b5", "\\u03b6", "\\u03b7", "\\u03b8", "\\u03b9",
     "\\u03ba", "\\u03bb", "\\u03bc", "\\u03bd", "\\u03be", "\\u03bf",
     "\\u03c0", "\\u03c1", "\\u03c2", "\\u03c3", "\\u03c4", "\\u03c5",
     "\\u03c6", "\\u03c7", "\\u03c8", "\\u03c9", "\\u03ca", "\\u03cb",
     "\\u03cc", "\\u03cd", "\\u03ce", "\\u03cf", "\\u03d0", "\\u03d1",
     "\\u03d2", "\\u03d3", "\\u03d4", "\\u03d5", "\\u03d6", "\\u03d7",
     "\\u03d8", "\\u03d9", "\\u03da", "\\u03db", "\\u03dc", "\\u03dd",
     "\\u03de", "\\u03df", "\\u03e0", "\\u03e1", "\\u03e2", "\\u03e3",
     "\\u03e4", "\\u03e5", "\\u03e6", "\\u03e7", "\\u03e8", "\\u03e9",
     "\\u03ea", "\\u03eb", "\\u03ec", "\\u03ed", "\\u03ee", "\\u03ef",
     "\\u03f0", "\\u03f1", "\\u03f2", "\\u03f3", "\\u03f4", "\\u03f5",
     "\\u03f7", "\\u03f8", "\\u03f9", "\\u03fa", "\\u03fb", "\\u03fc",
     "\\u03fd", "\\u03fe", "\\u03ff", "\\u0416", "\\u0436", "\\u0663",
     "\\u1e9e", "\\u212a", "\\u2167", "\\u2177", "\\u2460", "\\u4e2d",
     "\\ufb01", "\\U00010400", "\\U00010428"}

\* c.upper() for one character: a string, of two characters for the sharp s
upper_char(c) == IF char[c] \in CaseMappedChars THEN case_table[c][1] ELSE <<c>>
\* c.lower() for one character that is not a capital sigma inside a word
lower_char(c) == IF char[c] \in CaseMappedChars THEN case_table[c][2] ELSE <<c>>
\* The lower case of the capital sigma s[i]: the final form when a cased
\* character comes before it and none after it, case-ignorable characters
\* skipped on both sides.
lower_sigma(s, i) ==
    LET before == {j \in 1..(i - 1) : char[s[j]] \notin CaseIgnorableChars}
        after == {j \in (i + 1)..Len(s) : char[s[j]] \notin CaseIgnorableChars}
        Last(js) == CHOOSE j \in js : \A k \in js : k <= j
        First(js) == CHOOSE j \in js : \A k \in js : j <= k
    IN  IF /\ before /= {}
           /\ char[s[Last(before)]] \in CasedChars
           /\ \/ after = {}
              \/ char[s[First(after)]] \notin CasedChars
        THEN <<"\\u03c2">>
        ELSE <<"\\u03c3">>

\* "".join(parts)
RECURSIVE str_join(_)
str_join(parts) ==
    IF parts = <<>> THEN <<>> ELSE Head(parts) \o str_join(Tail(parts))
\* s.upper(), s.lower()
str_upper(s) ==
    LET parts == [i \in DOMAIN s |-> upper_char(s[i])] IN
    IF \A i \in DOMAIN parts : Len(parts[i]) = 1
    THEN [i \in DOMAIN s |-> parts[i][1]]
    ELSE str_join(parts)
str_lower(s) ==
    LET parts == [i \in DOMAIN s |->
                     IF s[i] = "\\u03a3" THEN lower_sigma(s, i) ELSE lower_char(s[i])] IN
    IF \A i \in DOMAIN parts : Len(parts[i]) = 1
    THEN [i \in DOMAIN s |-> parts[i][1]]
    ELSE str_join(parts)

\* s.lstrip(), s.rstrip(), s.strip()
RECURSIVE str_lstrip(_)
str_lstrip(s) ==
    IF s /= <<>> /\ char[Head(s)] \in WhitespaceChars THEN str_lstrip(Tail(s)) ELSE s
RECURSIVE str_rstrip(_)
str_rstrip(s) ==
    IF s /= <<>> /\ char[s[Len(s)]] \in WhitespaceChars
    THEN str_rstrip(SubSeq(s, 1, Len(s) - 1))
    ELSE s
str_strip(s) == str_rstrip(str_lstrip(s))

\* s.replace(c, '')
str_remove(s, c) ==
    LET Keep(x) == x /= c IN SelectSeq(s, Keep)

\* s.split(sep), sep one character
RECURSIVE str_split_acc(_, _, _)
str_split_acc(s, sep, cur) ==
    IF s = <<>> THEN <<cur>>
    ELSE IF Head(s) = sep
         THEN <<cur>> \o str_split_acc(Tail(s), sep, <<>>)
         ELSE str_split_acc(Tail(s), sep, Append(cur, Head(s)))
str_split(s, sep) == str_split_acc(s, sep, <<>>)

\* s.isalnum(): non-empty and every character a letter or a digit
str_isalnum(s) ==
    /\ s /= <<>>
    /\ \A i \in DOMAIN s : char[s[i]] \in AlnumChars
\* s.isupper(): at least one upper-case character and no lower-case or
\* title-case one; no value when the answer depends on a character outside
\* the alphabet
str_isupper(s) ==
    /\ \A i \in DOMAIN s :
           char[s[i]] \notin IsLowerChars /\ char[s[i]] \notin IsTitleChars
    /\ \E i \in DOMAIN s : char[s[i]] \in IsUpperChars
\* sub in s
str_contains(sub, s) ==
    \/ sub = <<>>
    \/ \E i \in 0..(Len(s) - Len(sub)) :
           /\ s[i + 1] = sub[1]
           /\ SubSeq(s, i + 1, i + Len(sub)) = sub
\* s[:n] and s[-n:]
str_first(s, n) == SubSeq(s, 1, IF Len(s) < n THEN Len(s) ELSE n)
str_last(s, n) == SubSeq(s, IF Len(s) < n THEN 1 ELSE Len(s) - n + 1, Len(s))

(***************************************************************************)
(* Enumerations of models/schemas.py                                       *)
(***************************************************************************)
PENDING == "Pending"
VALIDATED == "Validated"
NOT_VALIDATED == "Not validated"
NO_ERROR == "No error"
MEDICAL_ERROR == "Medical error"
TECHNICAL_ERROR == "Technical error"
BOTH == "Both"
INPATIENT == <<"I", "N", "P", "A", "T", "I", "E", "N", "T">>
OUTPATIENT == <<"O", "U", "T", "P", "A", "T", "I", "E", "N", "T">>
EncounterType == {INPATIENT, OUTPATIENT}

\* One error string: the message (kind) and the values it embeds.
Finding(kind, field, code, code2, text, text2, num) ==
    [kind |-> kind, field |-> field, code |-> code, code2 |-> code2,
     text |-> text, text2 |-> text2, num |-> num]

(***************************************************************************)
(* Rule configuration: RuleEngine.parse_technical_rules and                *)
(* parse_medical_rules.  Both build the configuration from literals and    *)
(* never read rules_content.                                               *)
(***************************************************************************)
paid_amount_threshold == 250

services_requiring_approval ==
    (<<"S", "R", "V", "1", "0", "0", "1">> :> TRUE) @@ (<<"S", "R", "V", "1", "0", "0", "2">> :> TRUE) @@ (<<"S", "R", "V", "1", "0", "0", "3">> :> FALSE) @@
    (<<"S", "R", "V", "2", "0", "0", "1">> :> FALSE) @@ (<<"S", "R", "V", "2", "0", "0", "2">> :> FALSE) @@ (<<"S", "R", "V", "2", "0", "0", "3">> :> FALSE) @@
    (<<"S", "R", "V", "2", "0", "0", "4">> :> FALSE) @@ (<<"S", "R", "V", "2", "0", "0", "6">> :> FALSE) @@ (<<"S", "R", "V", "2", "0", "0", "7">> :> FALSE) @@
    (<<"S", "R", "V", "2", "0", "0", "8">> :> TRUE) @@ (<<"S", "R", "V", "2", "0", "1", "0">> :> FALSE) @@ (<<"S", "R", "V", "2", "0", "1", "1">> :> FALSE)

diagnosis_requiring_approval ==
    (<<"E", "1", "1", ".", "9">> :> TRUE) @@ (<<"E", "6", "6", ".", "3">> :> FALSE) @@ (<<"E", "6", "6", ".", "9">> :> FALSE) @@
    (<<"E", "8", "8", ".", "9">> :> FALSE) @@ (<<"G", "4", "3", ".", "9">> :> FALSE) @@ (<<"J", "4", "5", ".", "9", "0", "9">> :> FALSE) @@
    (<<"N", "3", "9", ".", "0">> :> FALSE) @@ (<<"R", "0", "7", ".", "9">> :> TRUE) @@ (<<"R", "5", "1">> :> FALSE) @@
    (<<"R", "7", "3", ".", "0", "3">> :> FALSE) @@ (<<"Z", "3", "4", ".", "0">> :> TRUE)

\* id_format_rules: the pattern ^[A-Z0-9]{4}-[A-Z0-9]{4}-[A-Z0-9]{4}$
id_format_rules ==
    [segments |-> 3, segment_length |-> 4,
     allowed_chars |-> UpperChars \o DigitChars]

\* Variant for C24: the threshold is read from the rule text.
parse_technical_rules_from_text(rules_content) ==
    [services_requiring_approval |-> services_requiring_approval,
     diagnosis_requiring_approval |-> diagnosis_requiring_approval,
     paid_amount_threshold |->
         IF rules_content = "Approval is required above AED 500"
         THEN 500 ELSE paid_amount_threshold,
     id_format_rules |-> id_format_rules]

parse_technical_rules(rules_content) ==
    [services_requiring_approval |-> services_requiring_approval,
     diagnosis_requiring_approval |-> diagnosis_requiring_approval,
     paid_amount_threshold |-> paid_amount_threshold,
     id_format_rules |-> id_format_rules]

inpatient_only_services == <<<<"S", "R", "V", "1", "0", "0", "1">>, <<"S", "R", "V", "1", "0", "0", "2">>, <<"S", "R", "V", "1", "0", "0", "3">>>>
outpatient_only_services ==
    <<<<"S", "R", "V", "2", "0", "0", "1">>, <<"S", "R", "V", "2", "0", "0", "2">>, <<"S", "R", "V", "2", "0", "0", "3">>, <<"S", "R", "V", "2", "0", "0", "4">>, <<"S", "R", "V", "2", "0", "0", "5">>, <<"S", "R", "V", "2", "0", "0", "6">>,
      <<"S", "R", "V", "2", "0", "0", "7">>, <<"S", "R", "V", "2", "0", "0", "8">>, <<"S", "R", "V", "2", "0", "1", "0">>, <<"S", "R", "V", "2", "0", "1", "1">>>>

\* facility id -> facility type, in the order of the dict literal
facility_registry ==
    <<
      <<<<"0", "D", "B", "Y", "E", "6", "K", "P">>, "DIALYSIS_CENTER">>,
      <<<<"2", "X", "K", "S", "Z", "K", "4", "T">>, "MATERNITY_HOSPITAL">>,
      <<<<"7", "R", "1", "V", "M", "I", "G", "X">>, "CARDIOLOGY_CENTER">>,
      <<<<"9", "6", "G", "U", "D", "L", "M", "T">>, "GENERAL_HOSPITAL">>,
      <<<<"9", "V", "7", "H", "T", "I", "6", "E">>, "GENERAL_HOSPITAL">>,
      <<<<"E", "G", "V", "P", "0", "Q", "A", "Q">>, "GENERAL_HOSPITAL">>,
      <<<<"E", "P", "R", "E", "T", "Q", "T", "L">>, "DIALYSIS_CENTER">>,
      <<<<"F", "L", "X", "F", "B", "I", "M", "D">>, "GENERAL_HOSPITAL">>,
      <<<<"G", "L", "C", "T", "D", "Q", "A", "J">>, "MATERNITY_HOSPITAL">>,
      <<<<"G", "Y", "0", "G", "U", "I", "8", "G">>, "GENERAL_HOSPITAL">>,
      <<<<"I", "2", "M", "F", "Y", "K", "Y", "M">>, "GENERAL_HOSPITAL">>,
      <<<<"L", "B", "7", "I", "5", "4", "Z", "7">>, "CARDIOLOGY_CENTER">>,
      <<<<"M", "1", "X", "C", "Z", "V", "Q", "D">>, "CARDIOLOGY_CENTER">>,
      <<<<"M", "7", "D", "J", "Y", "N", "G", "5">>, "GENERAL_HOSPITAL">>,
      <<<<"M", "T", "5", "W", "4", "H", "I", "R">>, "MATERNITY_HOSPITAL">>,
      <<<<"O", "C", "Q", "U", "M", "G", "D", "W">>, "GENERAL_HOSPITAL">>,
      <<<<"O", "I", "A", "P", "2", "D", "T", "P">>, "CARDIOLOGY_CENTER">>,
      <<<<"Q", "3", "G", "9", "N", "3", "4", "N">>, "GENERAL_HOSPITAL">>,
      <<<<"Q", "8", "O", "Z", "5", "Z", "7", "C">>, "GENERAL_HOSPITAL">>,
      <<<<"R", "N", "P", "G", "D", "X", "C", "U">>, "MATERNITY_HOSPITAL">>,
      <<<<"S", "1", "7", "4", "K", "5", "Q", "K">>, "GENERAL_HOSPITAL">>,
      <<<<"S", "K", "H", "7", "D", "3", "1", "V">>, "CARDIOLOGY_CENTER">>,
      <<<<"S", "Z", "C", "6", "2", "N", "T", "W">>, "GENERAL_HOSPITAL">>,
      <<<<"V", "V", "1", "G", "S", "6", "P", "0">>, "MATERNITY_HOSPITAL">>,
      <<<<"Z", "D", "E", "6", "M", "6", "N", "J">>, "GENERAL_HOSPITAL">>
    >>

facility_service_mapping ==
    ("MATERNITY_HOSPITAL" :> <<<<"S", "R", "V", "2", "0", "0", "8">>>>) @@
    ("DIALYSIS_CENTER" :> <<<<"S", "R", "V", "1", "0", "0", "3">>, <<"S", "R", "V", "2", "0", "1", "0">>>>) @@
    ("CARDIOLOGY_CENTER" :> <<<<"S", "R", "V", "2", "0", "0", "1">>, <<"S", "R", "V", "2", "0", "1", "1">>>>) @@
    ("GENERAL_HOSPITAL" :>
        <<<<"S", "R", "V", "1", "0", "0", "1">>, <<"S", "R", "V", "1", "0", "0", "2">>, <<"S", "R", "V", "1", "0", "0", "3">>, <<"S", "R", "V", "2", "0", "0", "1">>, <<"S", "R", "V", "2", "0", "0", "2">>, <<"S", "R", "V", "2", "0", "0", "3">>,
          <<"S", "R", "V", "2", "0", "0", "4">>, <<"S", "R", "V", "2", "0", "0", "6">>, <<"S", "R", "V", "2", "0", "0", "7">>, <<"S", "R", "V", "2", "0", "0", "8">>, <<"S", "R", "V", "2", "0", "1", "0">>, <<"S", "R", "V", "2", "0", "1", "1">>>>)

diagnosis_service_requirements ==
    (<<"E", "1", "1", ".", "9">> :> <<<<"S", "R", "V", "2", "0", "0", "7">>>>) @@ (<<"J", "4", "5", ".", "9", "0", "9">> :> <<<<"S", "R", "V", "2", "0", "0", "6">>>>) @@
    (<<"R", "0", "7", ".", "9">> :> <<<<"S", "R", "V", "2", "0", "0", "1">>>>) @@ (<<"Z", "3", "4", ".", "0">> :> <<<<"S", "R", "V", "2", "0", "0", "8">>>>) @@
    (<<"N", "3", "9", ".", "0">> :> <<<<"S", "R", "V", "2", "0", "0", "5">>>>)

mutually_exclusive_diagnoses ==
    << <<<<"R", "7", "3", ".", "0", "3">>, <<"E", "1", "1", ".", "9">>>>, <<<<"E", "6", "6", ".", "9">>, <<"E", "6", "6", ".", "3">>>>, <<<<"R", "5", "1">>, <<"G", "4", "3", ".", "9">>>> >>

parse_medical_rules(rules_content) ==
    [inpatient_only_services |-> inpatient_only_services,
     outpatient_only_services |-> outpatient_only_services,
     facility_service_mapping |-> facility_service_mapping,
     facility_registry |-> facility_registry,
     diagnosis_service_requirements |-> diagnosis_service_requirements,
     mutually_exclusive_diagnoses |-> mutually_exclusive_diagnoses]

(***************************************************************************)
(* RuleEngine._validate_id_formats                                         *)
(***************************************************************************)
\* re.match(r"^[A-Z0-9]{4}-[A-Z0-9]{4}-[A-Z0-9]{4}$", uid); "$" also matches
\* before one trailing newline.
pattern_core(uid) ==
    /\ Len(uid) = 14
    /\ uid[5] = "-" /\ uid[10] = "-"
    /\ \A i \in (1..14) \ {5, 10} :
          uid[i] \in Range(UpperChars) \cup Range(DigitChars)
pattern_match(uid) ==
    \/ pattern_core(uid)
    \/ Len(uid) = 15 /\ uid[15] = "\n" /\ pattern_core(SubSeq(uid, 1, 14))

placeholder_values ==
    { <<"X", "X", "X", "X", "-", "Y", "Y", "Y", "Y", "-", "Z", "Z", "Z", "Z">>,
      <<"X", "X", "X", "X", "-", "X", "X", "X", "X", "-", "X", "X", "X", "X">> }

\* 1. the format finding
id_format_errors(claim) ==
    IF ~pattern_match(claim.unique_id)
    THEN <<Finding("unique_id_format", "unique_id", <<>>, <<>>, claim.unique_id, <<>>, 0)>>
    ELSE <<>>
\* 2. the placeholder finding
id_placeholder_errors(claim) ==
    IF str_upper(claim.unique_id) \in placeholder_values
    THEN <<Finding("unique_id_placeholder", "unique_id", <<>>, <<>>, claim.unique_id, <<>>, 0)>>
    ELSE <<>>
\* 3. first segment against national_id[:4]
id_first_segment_errors(claim, segments) ==
    LET national_upper == str_upper(claim.national_id) IN
    IF Len(national_upper) >= 4
    THEN IF segments[1] /= str_first(national_upper, 4)
         THEN <<Finding("segment_mismatch", "first", <<>>, <<>>, segments[1],
                        str_first(national_upper, 4), 0)>>
         ELSE <<>>
    ELSE <<Finding("id_too_short", "national_id", <<>>, <<>>, claim.national_id, <<>>, 0)>>
\* Variant for C28: the substring check for every member_id of 4 or more
\* characters.
id_middle_segment_errors_substring(claim, segments) ==
    LET member_upper == str_upper(claim.member_id) IN
    IF Len(member_upper) >= 4
    THEN IF ~str_contains(segments[2], member_upper)
         THEN <<Finding("segment_not_found", "middle", <<>>, <<>>, segments[2],
                        claim.member_id, 0)>>
         ELSE <<>>
    ELSE <<Finding("id_too_short", "member_id", <<>>, <<>>, claim.member_id, <<>>, 0)>>

\* 3. middle segment against member_id[2:6], or as a substring of member_id
id_middle_segment_errors(claim, segments) ==
    LET member_upper == str_upper(claim.member_id) IN
    IF Len(member_upper) >= 8
    THEN IF segments[2] /= SubSeq(member_upper, 3, 6)
         THEN <<Finding("segment_mismatch", "middle", <<>>, <<>>, segments[2],
                        SubSeq(member_upper, 3, 6), 0)>>
         ELSE <<>>
    ELSE IF Len(member_upper) >= 4
         THEN IF ~str_contains(segments[2], member_upper)
              THEN <<Finding("segment_not_found", "middle", <<>>, <<>>, segments[2],
                             claim.member_id, 0)>>
              ELSE <<>>
         ELSE <<Finding("id_too_short", "member_id", <<>>, <<>>, claim.member_id, <<>>, 0)>>
\* 3. last segment against facility_id[-4:]
id_last_segment_errors(claim, segments) ==
    LET facility_upper == str_upper(claim.facility_id) IN
    IF Len(facility_upper) >= 4
    THEN IF segments[3] /= str_last(facility_upper, 4)
         THEN <<Finding("segment_mismatch", "last", <<>>, <<>>, segments[3],
                        str_last(facility_upper, 4), 0)>>
         ELSE <<>>
    ELSE <<Finding("id_too_short", "facility_id", <<>>, <<>>, claim.facility_id, <<>>, 0)>>
\* 3. the three segment checks, made only when the pattern matches
id_segment_errors(claim) ==
    IF pattern_match(claim.unique_id)
    THEN LET segments == str_split(claim.unique_id, "-") IN
         id_first_segment_errors(claim, segments)
         \o id_middle_segment_errors(claim, segments)
         \o id_last_segment_errors(claim, segments)
    ELSE <<>>
\* 4. charset and case findings of one source identifier
id_field_errors(id_field, id_value) ==
    (IF ~str_isalnum(str_remove(id_value, "-"))
     THEN <<Finding("invalid_characters", id_field, <<>>, <<>>, id_value, <<>>, 0)>>
     ELSE <<>>)
    \o
    (IF id_value /= str_upper(id_value)
     THEN <<Finding("not_uppercase", id_field, <<>>, <<>>, id_value, <<>>, 0)>>
     ELSE <<>>)

_validate_id_formats(claim) ==
    id_format_errors(claim)
    \o id_placeholder_errors(claim)
    \o id_segment_errors(claim)
    \o id_field_errors("national_id", claim.national_id)
    \o id_field_errors("member_id", claim.member_id)
    \o id_field_errors("facility_id", claim.facility_id)

(***************************************************************************)
(* RuleEngine._validate_technical_rules                                    *)
(***************************************************************************)
invalid_values ==
    { <<"N", "A">>, <<"N", "/", "A">>, <<"N", "O", "N", "E">>,
      <<"N", "U", "L", "L">>,
      <<"O", "B", "T", "A", "I", "N", " ", "A", "P", "P", "R", "O", "V", "A", "L">>,
      <<"P", "E", "N", "D", "I", "N", "G">> }

\* Variant for C27: the value is compared with the placeholders as it is,
\* without removing the surrounding whitespace.
has_valid_approval_without_strip(approval_str) ==
    IF approval_str = <<>> \/ str_strip(approval_str) = <<>>
    THEN FALSE
    ELSE str_upper(approval_str) \notin invalid_values

has_valid_approval(approval_str) ==
    IF approval_str = <<>> \/ str_strip(approval_str) = <<>>
    THEN FALSE
    ELSE str_upper(str_strip(approval_str)) \notin invalid_values

\* str(n) for a natural number
RECURSIVE decimal(_)
decimal(n) ==
    IF n < 10 THEN <<DigitChars[n + 1]>>
    ELSE decimal(n \div 10) \o <<DigitChars[(n % 10) + 1]>>

\* ", ".join(codes)
RECURSIVE join_codes(_)
join_codes(codes) ==
    IF codes = <<>> THEN <<>>
    ELSE IF Len(codes) = 1 THEN codes[1]
         ELSE codes[1] \o <<",", " ">> \o join_codes(Tail(codes))

\* the reasons approval is needed, in the order the code appends them
approval_reasons(rules, claim) ==
    LET svc == claim.service_code
        Flagged(d) == /\ d \in DOMAIN rules.diagnosis_requiring_approval
                      /\ rules.diagnosis_requiring_approval[d]
        diags == SelectSeq(claim.diagnosis_codes, Flagged)
    IN  (IF /\ svc \in DOMAIN rules.services_requiring_approval
            /\ rules.services_requiring_approval[svc]
         THEN <<[field |-> "service", code |-> svc, num |-> 0]>>
         ELSE <<>>)
        \o [i \in DOMAIN diags |-> [field |-> "diagnosis", code |-> diags[i], num |-> 0]]
        \o (IF claim.paid_amount_aed > rules.paid_amount_threshold
            THEN <<[field |-> "amount", code |-> <<>>, num |-> claim.paid_amount_aed]>>
            ELSE <<>>)

\* Variant for C17: one finding for the claim, whatever the number of reasons.
approval_errors_single(rules, claim) ==
    LET reasons == approval_reasons(rules, claim) IN
    IF reasons /= <<>> /\ ~has_valid_approval(claim.approval_number)
    THEN <<Finding("approval_required", reasons[1].field, reasons[1].code, <<>>,
                   IF claim.approval_number = <<>>
                   THEN <<"e", "m", "p", "t", "y">>
                   ELSE claim.approval_number,
                   IF reasons[1].field = "amount"
                   THEN decimal(rules.paid_amount_threshold) \o <<".", "0">>
                   ELSE <<>>,
                   reasons[1].num)>>
    ELSE <<>>

approval_errors(rules, claim) ==
    LET reasons == approval_reasons(rules, claim) IN
    IF reasons /= <<>> /\ ~has_valid_approval(claim.approval_number)
    THEN [i \in DOMAIN reasons |->
            Finding("approval_required", reasons[i].field, reasons[i].code, <<>>,
                    IF claim.approval_number = <<>>
                    THEN <<"e", "m", "p", "t", "y">>
                    ELSE claim.approval_number,
                    IF reasons[i].field = "amount"
                    THEN decimal(rules.paid_amount_threshold) \o <<".", "0">>
                    ELSE <<>>,
                    reasons[i].num)]
    ELSE <<>>

_validate_technical_rules(rules, claim) ==
    approval_errors(rules, claim) \o _validate_id_formats(claim)

(***************************************************************************)
(* RuleEngine._validate_medical_rules                                      *)
(***************************************************************************)
\* rules.facility_registry.get(facility_id.upper()), then the scan over the
\* keys upper-cased; <<>> when the facility is not registered
facility_type_of(rules, facility_id) ==
    LET reg == rules.facility_registry
        key == str_upper(facility_id)
        direct == {i \in DOMAIN reg : reg[i][1] = key}
        scan == {i \in DOMAIN reg : str_upper(reg[i][1]) = key}
    IN  IF direct /= {} THEN <<reg[CHOOSE i \in direct : TRUE][2]>>
        ELSE IF scan /= {}
             THEN <<reg[CHOOSE i \in scan : \A j \in scan : i <= j][2]>>
             ELSE <<>>

encounter_errors(rules, claim) ==
    (IF /\ InSeq(claim.service_code, rules.inpatient_only_services)
        /\ claim.encounter_type /= INPATIENT
     THEN <<Finding("inpatient_only", "", claim.service_code, <<>>,
                    claim.encounter_type, <<>>, 0)>>
     ELSE <<>>)
    \o
    (IF /\ InSeq(claim.service_code, rules.outpatient_only_services)
        /\ claim.encounter_type /= OUTPATIENT
     THEN <<Finding("outpatient_only", "", claim.service_code, <<>>,
                    claim.encounter_type, <<>>, 0)>>
     ELSE <<>>)

facility_errors(rules, claim) ==
    LET facility_type == facility_type_of(rules, claim.facility_id) IN
    IF facility_type /= <<>>
    THEN LET allowed_services ==
                 IF facility_type[1] \in DOMAIN rules.facility_service_mapping
                 THEN rules.facility_service_mapping[facility_type[1]]
                 ELSE <<>>
         IN  IF ~InSeq(claim.service_code, allowed_services)
             THEN <<Finding("service_not_authorized", facility_type[1],
                            claim.service_code, <<>>, claim.facility_id, <<>>, 0)>>
             ELSE <<>>
    ELSE <<Finding("facility_not_registered", "", <<>>, <<>>, claim.facility_id, <<>>, 0)>>

diagnosis_service_errors(rules, claim) ==
    LET Unmet(d) == /\ d \in DOMAIN rules.diagnosis_service_requirements
                    /\ ~InSeq(claim.service_code, rules.diagnosis_service_requirements[d])
        diags == SelectSeq(claim.diagnosis_codes, Unmet)
    IN  [i \in DOMAIN diags |->
            Finding("diagnosis_requires_service", "", diags[i], claim.service_code,
                    join_codes(rules.diagnosis_service_requirements[diags[i]]),
                    <<>>, 0)]

\* Variant for C19: a pair is found only in the order it is configured in.
mutually_exclusive_errors_ordered(rules, claim) ==
    LET pairs == rules.mutually_exclusive_diagnoses
        codes == claim.diagnosis_codes
        InOrder(p) == \E a, b \in DOMAIN codes :
                          a < b /\ codes[a] = p[1] /\ codes[b] = p[2]
        hits == SelectSeq(pairs, InOrder)
    IN  [i \in DOMAIN hits |->
            Finding("mutually_exclusive", "", hits[i][1], hits[i][2], <<>>, <<>>, 0)]

mutually_exclusive_errors(rules, claim) ==
    LET pairs == rules.mutually_exclusive_diagnoses
        Both(p) == InSeq(p[1], claim.diagnosis_codes) /\ InSeq(p[2], claim.diagnosis_codes)
        hits == SelectSeq(pairs, Both)
    IN  [i \in DOMAIN hits |->
            Finding("mutually_exclusive", "", hits[i][1], hits[i][2], <<>>, <<>>, 0)]

_validate_medical_rules(rules, claim) ==
    encounter_errors(rules, claim)
    \o facility_errors(rules, claim)
    \o diagnosis_service_errors(rules, claim)
    \o mutually_exclusive_errors(rules, claim)

(***************************************************************************)
(* The error strings of the rule engine                                    *)
(***************************************************************************)
\* The characters of a name the model keeps atomic: a field name, a segment
\* name or a facility type.
atom_chars(a) ==
    CASE a = "national_id" ->
           <<"n", "a", "t", "i", "o", "n", "a", "l", "_", "i", "d">>
      [] a = "member_id" ->
           <<"m", "e", "m", "b", "e", "r", "_", "i", "d">>
      [] a = "facility_id" ->
           <<"f", "a", "c", "i", "l", "i", "t", "y", "_", "i", "d">>
      [] a = "first" ->
           <<"f", "i", "r", "s", "t">>
      [] a = "middle" ->
           <<"m", "i", "d", "d", "l", "e">>
      [] a = "last" ->
           <<"l", "a", "s", "t">>
      [] a = "MATERNITY_HOSPITAL" ->
           <<"M", "A", "T", "E", "R", "N", "I", "T", "Y", "_", "H", "O", "S",
             "P", "I", "T", "A", "L">>
      [] a = "DIALYSIS_CENTER" ->
           <<"D", "I", "A", "L", "Y", "S", "I", "S", "_", "C", "E", "N", "T",
             "E", "R">>
      [] a = "CARDIOLOGY_CENTER" ->
           <<"C", "A", "R", "D", "I", "O", "L", "O", "G", "Y", "_", "C", "E",
             "N", "T", "E", "R">>
      [] a = "GENERAL_HOSPITAL" ->
           <<"G", "E", "N", "E", "R", "A", "L", "_", "H", "O", "S", "P", "I",
             "T", "A", "L">>

\* The f-string the rule engine appends for a finding.
error_message(e) ==
    LET
        technical ==
            <<"T", "e", "c", "h", "n", "i", "c", "a", "l", " ", "E", "r",
              "r", "o", "r", ":", " ">>
        medical ==
            <<"M", "e", "d", "i", "c", "a", "l", " ", "E", "r", "r", "o",
              "r", ":", " ">>
        quote ==
            <<"'">>
        format_1 ==
            <<"u", "n", "i", "q", "u", "e", "_", "i", "d", " ", "'">>
        format_2 ==
            <<"'", " ", "m", "u", "s", "t", " ", "f", "o", "l", "l", "o",
              "w", " ", "f", "o", "r", "m", "a", "t", " ", "X", "X", "X",
              "X", "-", "X", "X", "X", "X", "-", "X", "X", "X", "X", " ",
              "w", "i", "t", "h", " ", "u", "p", "p", "e", "r", "c", "a",
              "s", "e", " ", "a", "l", "p", "h", "a", "n", "u", "m", "e",
              "r", "i", "c", " ", "c", "h", "a", "r", "a", "c", "t", "e",
              "r", "s", " ", "o", "n", "l", "y">>
        placeholder_1 ==
            <<"u", "n", "i", "q", "u", "e", "_", "i", "d", " ", "c", "a",
              "n", "n", "o", "t", " ", "b", "e", " ", "a", " ", "p", "l",
              "a", "c", "e", "h", "o", "l", "d", "e", "r", " ", "v", "a",
              "l", "u", "e", " ", "'">>
        segment_1 ==
            <<"u", "n", "i", "q", "u", "e", "_", "i", "d", " ">>
        segment_2 ==
            <<" ", "s", "e", "g", "m", "e", "n", "t", " ", "'">>
        segment_3 ==
            <<"'", " ", "m", "u", "s", "t", " ", "b", "e", " ">>
        segment_4 ==
            <<" ", "4", " ", "c", "h", "a", "r", "a", "c", "t", "e", "r",
              "s", " ", "o", "f", " ">>
        segment_5 ==
            <<" ", "(", "e", "x", "p", "e", "c", "t", "e", "d", " ", "'">>
        segment_6 ==
            <<"'", ")">>
        segment_7 ==
            <<"'", ",", " ", "p", "o", "s", "i", "t", "i", "o", "n", "s",
              " ", "3", "-", "6", ")">>
        not_found_1 ==
            <<"'", " ", "n", "o", "t", " ", "f", "o", "u", "n", "d", " ",
              "i", "n", " ", "m", "e", "m", "b", "e", "r", "_", "i", "d",
              " ", "'">>
        too_short_1 ==
            <<"'", " ", "m", "u", "s", "t", " ", "b", "e", " ", "a", "t",
              " ", "l", "e", "a", "s", "t", " ", "4", " ", "c", "h", "a",
              "r", "a", "c", "t", "e", "r", "s", " ", "l", "o", "n", "g">>
        space_quote ==
            <<" ", "'">>
        invalid_1 ==
            <<"'", " ", "c", "o", "n", "t", "a", "i", "n", "s", " ", "i",
              "n", "v", "a", "l", "i", "d", " ", "c", "h", "a", "r", "a",
              "c", "t", "e", "r", "s", " ", "(", "m", "u", "s", "t", " ",
              "b", "e", " ", "a", "l", "p", "h", "a", "n", "u", "m", "e",
              "r", "i", "c", " ", "o", "n", "l", "y", ")">>
        not_upper_1 ==
            <<"'", " ", "m", "u", "s", "t", " ", "b", "e", " ", "U", "P",
              "P", "E", "R", "C", "A", "S", "E", " ", "a", "l", "p", "h",
              "a", "n", "u", "m", "e", "r", "i", "c", " ", "(", "f", "o",
              "u", "n", "d", " ", "l", "o", "w", "e", "r", "c", "a", "s",
              "e", " ", "c", "h", "a", "r", "a", "c", "t", "e", "r", "s",
              ")">>
        approval_1 ==
            <<"P", "r", "i", "o", "r", " ", "a", "p", "p", "r", "o", "v",
              "a", "l", " ", "r", "e", "q", "u", "i", "r", "e", "d", " ",
              "f", "o", "r", " ">>
        approval_2 ==
            <<",", " ", "b", "u", "t", " ", "n", "o", " ", "v", "a", "l",
              "i", "d", " ", "a", "p", "p", "r", "o", "v", "a", "l", " ",
              "n", "u", "m", "b", "e", "r", " ", "p", "r", "o", "v", "i",
              "d", "e", "d", " ", "(", "g", "o", "t", ":", " ", "'">>
        reason_service ==
            <<"s", "e", "r", "v", "i", "c", "e", " ">>
        reason_diagnosis ==
            <<"d", "i", "a", "g", "n", "o", "s", "i", "s", " ">>
        reason_amount_1 ==
            <<"p", "a", "i", "d", " ", "a", "m", "o", "u", "n", "t", " ",
              "A", "E", "D", " ">>
        reason_amount_2 ==
            <<" ", "(", "e", "x", "c", "e", "e", "d", "s", " ", "t", "h",
              "r", "e", "s", "h", "o", "l", "d", " ", "o", "f", " ", "A",
              "E", "D", " ">>
        close ==
            <<")">>
        service_1 ==
            <<"S", "e", "r", "v", "i", "c", "e", " ">>
        only_1 ==
            <<" ", "i", "s", " ">>
        only_2 ==
            <<"-", "o", "n", "l", "y", " ", "b", "u", "t", " ", "e", "n",
              "c", "o", "u", "n", "t", "e", "r", " ", "t", "y", "p", "e",
              " ", "i", "s", " ">>
        \* an f-string prints an EncounterType member as
        \* "EncounterType.INPATIENT" (its value alone before Python 3.11)
        enum_chars ==
            <<"E", "n", "c", "o", "u", "n", "t", "e", "r", "T", "y", "p", "e", ".">>
        authorized_1 ==
            <<" ", "i", "s", " ", "n", "o", "t", " ", "a", "u", "t", "h",
              "o", "r", "i", "z", "e", "d", " ", "a", "t", " ">>
        authorized_2 ==
            <<" ", "f", "a", "c", "i", "l", "i", "t", "i", "e", "s", " ",
              "(", "F", "a", "c", "i", "l", "i", "t", "y", " ", "I", "D",
              ":", " ">>
        registered_1 ==
            <<"F", "a", "c", "i", "l", "i", "t", "y", " ", "I", "D", " ",
              "'">>
        registered_2 ==
            <<"'", " ", "i", "s", " ", "n", "o", "t", " ", "r", "e", "g",
              "i", "s", "t", "e", "r", "e", "d", " ", "i", "n", " ", "t",
              "h", "e", " ", "s", "y", "s", "t", "e", "m">>
        requires_1 ==
            <<"D", "i", "a", "g", "n", "o", "s", "i", "s", " ">>
        requires_2 ==
            <<" ", "r", "e", "q", "u", "i", "r", "e", "s", " ", "s", "e",
              "r", "v", "i", "c", "e", " ">>
        requires_3 ==
            <<",", " ", "b", "u", "t", " ", "s", "e", "r", "v", "i", "c",
              "e", " ">>
        requires_4 ==
            <<" ", "w", "a", "s", " ", "p", "r", "o", "v", "i", "d", "e",
              "d">>
        exclusive_1 ==
            <<"D", "i", "a", "g", "n", "o", "s", "e", "s", " ">>
        exclusive_2 ==
            <<" ", "a", "n", "d", " ">>
        exclusive_3 ==
            <<" ", "a", "r", "e", " ", "m", "u", "t", "u", "a", "l", "l",
              "y", " ", "e", "x", "c", "l", "u", "s", "i", "v", "e", " ",
              "a", "n", "d", " ", "c", "a", "n", "n", "o", "t", " ", "b",
              "o", "t", "h", " ", "b", "e", " ", "p", "r", "e", "s", "e",
              "n", "t", " ", "o", "n", " ", "t", "h", "e", " ", "s", "a",
              "m", "e", " ", "c", "l", "a", "i", "m">>
    IN  CASE e.kind = "unique_id_format" ->
                 technical \o format_1 \o e.text \o format_2
          [] e.kind = "unique_id_placeholder" ->
                 technical \o placeholder_1 \o e.text \o quote
          [] e.kind = "segment_mismatch" ->
                 technical \o segment_1 \o atom_chars(e.field) \o segment_2
                 \o e.text \o segment_3 \o atom_chars(e.field) \o segment_4
                 \o atom_chars(CASE e.field = "first" -> "national_id"
                                 [] e.field = "middle" -> "member_id"
                                 [] OTHER -> "facility_id")
                 \o segment_5 \o e.text2
                 \o (IF e.field = "middle" THEN segment_7 ELSE segment_6)
          [] e.kind = "segment_not_found" ->
                 technical \o segment_1 \o atom_chars(e.field) \o segment_2
                 \o e.text \o not_found_1 \o e.text2 \o quote
          [] e.kind = "id_too_short" ->
                 technical \o atom_chars(e.field) \o space_quote \o e.text
                 \o too_short_1
          [] e.kind = "invalid_characters" ->
                 technical \o atom_chars(e.field) \o space_quote \o e.text
                 \o invalid_1
          [] e.kind = "not_uppercase" ->
                 technical \o atom_chars(e.field) \o space_quote \o e.text
                 \o not_upper_1
          [] e.kind = "approval_required" ->
                 technical \o approval_1
                 \o (CASE e.field = "service" -> reason_service \o e.code
                       [] e.field = "diagnosis" -> reason_diagnosis \o e.code
                       [] OTHER -> reason_amount_1 \o decimal(e.num)
                                   \o <<".", "0", "0">> \o reason_amount_2
                                   \o e.text2 \o close)
                 \o approval_2 \o e.text \o segment_6
          [] e.kind \in {"inpatient_only", "outpatient_only"} ->
                 medical \o service_1 \o e.code \o only_1
                 \o (IF e.kind = "inpatient_only" THEN INPATIENT ELSE OUTPATIENT)
                 \o only_2 \o enum_chars \o e.text
          [] e.kind = "service_not_authorized" ->
                 medical \o service_1 \o e.code \o authorized_1
                 \o atom_chars(e.field) \o authorized_2 \o e.text \o close
          [] e.kind = "facility_not_registered" ->
                 medical \o registered_1 \o e.text \o registered_2
          [] e.kind = "diagnosis_requires_service" ->
                 medical \o requires_1 \o e.code \o requires_2 \o e.text
                 \o requires_3 \o e.code2 \o requires_4
          [] e.kind = "mutually_exclusive" ->
                 medical \o exclusive_1 \o e.code \o exclusive_2 \o e.code2
                 \o exclusive_3

(***************************************************************************)
(* RuleEngine._generate_recommended_action and RuleEngine.validate_claim   *)
(***************************************************************************)
\* The action a technical error string selects by the first keyword its
\* lower-cased text contains ("prior approval", else "unique_id", else
\* "threshold"); <<>> when none.
technical_action(e) ==
    LET error == str_lower(error_message(e))
        prior_approval ==
            <<"p", "r", "i", "o", "r", " ", "a", "p", "p", "r", "o", "v",
              "a", "l">>
        unique_id ==
            <<"u", "n", "i", "q", "u", "e", "_", "i", "d">>
        threshold ==
            <<"t", "h", "r", "e", "s", "h", "o", "l", "d">>
    IN  IF str_contains(prior_approval, error)
        THEN <<"Obtain prior approval before processing">>
        ELSE IF str_contains(unique_id, error)
             THEN <<"Correct ID formatting to uppercase alphanumeric">>
             ELSE IF str_contains(threshold, error)
                  THEN <<"Request prior approval for high-value claim">>
                  ELSE <<>>
\* The action a medical error string selects ("encounter", else "facility",
\* else "diagnosis" and "requires", else "mutually exclusive").
medical_action(e) ==
    LET error == str_lower(error_message(e))
        encounter ==
            <<"e", "n", "c", "o", "u", "n", "t", "e", "r">>
        facility ==
            <<"f", "a", "c", "i", "l", "i", "t", "y">>
        diagnosis ==
            <<"d", "i", "a", "g", "n", "o", "s", "i", "s">>
        requires ==
            <<"r", "e", "q", "u", "i", "r", "e", "s">>
        mutually_exclusive ==
            <<"m", "u", "t", "u", "a", "l", "l", "y", " ", "e", "x", "c",
              "l", "u", "s", "i", "v", "e">>
    IN  IF str_contains(encounter, error)
        THEN <<"Verify encounter type matches service requirements">>
        ELSE IF str_contains(facility, error)
             THEN <<"Transfer to appropriate facility or update facility code">>
             ELSE IF str_contains(diagnosis, error) /\ str_contains(requires, error)
                  THEN <<"Update service code to match diagnosis requirements">>
                  ELSE IF str_contains(mutually_exclusive, error)
                       THEN <<"Review and correct diagnosis codes">>
                       ELSE <<>>
\* "; ".join(list(set(actions))): the order of the joined actions is the
\* iteration order of a Python set, so the value is kept as the set.
_generate_recommended_action(technical_errors, medical_errors) ==
    LET actions ==
            UNION {Range(technical_action(technical_errors[i])) :
                       i \in DOMAIN technical_errors}
            \cup
            UNION {Range(medical_action(medical_errors[i])) :
                       i \in DOMAIN medical_errors}
    IN  IF actions = {}
        THEN {"Review claim details and correct identified issues"}
        ELSE actions

ValidationResult(unique_id, status, error_type, error_explanation, recommended_action, technical_errors, medical_errors) ==
    [unique_id |-> unique_id, status |-> status, error_type |-> error_type,
     error_explanation |-> error_explanation,
     recommended_action |-> recommended_action,
     technical_errors |-> technical_errors, medical_errors |-> medical_errors]

\* Variant for C2: the status looks at the technical findings only.
validate_claim_status_technical_only(technical_errors, medical_errors) ==
    IF technical_errors = <<>> THEN VALIDATED ELSE NOT_VALIDATED

\* status of validate_claim: from the combined list
validate_claim_status(technical_errors, medical_errors) ==
    IF technical_errors \o medical_errors = <<>> THEN VALIDATED ELSE NOT_VALIDATED
\* Variant for C3: any finding classifies the claim as "Both".
validate_claim_error_type_both(technical_errors, medical_errors) ==
    IF technical_errors \o medical_errors = <<>> THEN NO_ERROR ELSE BOTH

\* error_type of validate_claim: NO_ERROR when the combined list is empty,
\* else by which of the two lists has errors
validate_claim_error_type(technical_errors, medical_errors) ==
    IF technical_errors \o medical_errors = <<>>
    THEN NO_ERROR
    ELSE IF technical_errors /= <<>> /\ medical_errors /= <<>> THEN BOTH
         ELSE IF technical_errors /= <<>> THEN TECHNICAL_ERROR
              ELSE IF medical_errors /= <<>> THEN MEDICAL_ERROR
                   ELSE NO_ERROR

\* engine: the RuleEngine instance, each of technical_rules and medical_rules
\* <<>> (None) or <<config>>
validate_claim(engine, claim) ==
    LET technical_errors ==
            IF engine.technical_rules /= <<>>
            THEN _validate_technical_rules(engine.technical_rules[1], claim)
            ELSE <<>>
        medical_errors ==
            IF engine.medical_rules /= <<>>
            THEN _validate_medical_rules(engine.medical_rules[1], claim)
            ELSE <<>>
        all_errors == technical_errors \o medical_errors
    IN  ValidationResult(
            claim.unique_id,
            validate_claim_status(technical_errors, medical_errors),
            validate_claim_error_type(technical_errors, medical_errors),
            all_errors,
            IF all_errors = <<>>
            THEN {"No action required - claim is valid"}
            ELSE _generate_recommended_action(technical_errors, medical_errors),
            technical_errors, medical_errors)

(***************************************************************************)
(* ClaimRecord (models/schemas.py) and ValidationService._dict_to_claim_record *)
(***************************************************************************)
\* ClaimRecord.validate_unique_id_format: the message it raises, <<>> if none
validate_unique_id_format(v) ==
    LET parts == str_split(v, "-") IN
    IF Len(parts) /= 3
    THEN <<"unique_id must have format XXXX-XXXX-XXXX">>
    ELSE IF ~(\A i \in DOMAIN parts : Len(parts[i]) = 4)
         THEN <<"Each segment of unique_id must be 4 characters">>
         ELSE IF ~(\A i \in DOMAIN parts :
                       str_isalnum(parts[i]) /\ str_isupper(parts[i]))
              THEN <<"unique_id segments must be uppercase alphanumeric">>
              ELSE <<>>

\* The errors the ClaimRecord constructor raises for a stored document, in
\* field order; <<>> when the record is built.
claim_record_errors(claim_dict) ==
    validate_unique_id_format(claim_dict.unique_id)
    \o (IF claim_dict.encounter_type \notin EncounterType
        THEN <<"encounter_type: value is not a valid enumeration member">>
        ELSE <<>>)
    \o (IF ~(claim_dict.paid_amount_aed >= 0)
        THEN <<"paid_amount_aed: ensure this value is greater than or equal to 0">>
        ELSE <<>>)

\* approval_number of the record: the "NA" spellings become ""
normalize_approval_number(approval_number) ==
    IF /\ approval_number /= <<>>
       /\ str_upper(approval_number) \in
              { <<"N", "A">>, <<"N", "/", "A">>, <<"N", "O", "N", "E">>,
                <<"N", "U", "L", "L">>, <<"N", "A", "N">> }
    THEN <<>>
    ELSE approval_number

\* ClaimRecord.validate_diagnosis_codes:
\* [code.strip() for code in v if code.strip()]
validate_diagnosis_codes(v) ==
    LET NonEmpty(code) == code /= <<>>
    IN  SelectSeq([i \in DOMAIN v |-> str_strip(v[i])], NonEmpty)

\* The ClaimRecord built from a stored document (when no error is raised).
\* tenant_id, status, error_type, error_explanation and recommended_action
\* are not passed and take the field defaults.
\* ValidationService._normalize_unique_id; no method of the service calls it
_normalize_unique_id(uid) ==
    IF uid = <<>> THEN uid
    ELSE LET clean_id == str_remove(str_upper(uid), "-")
         IN  IF Len(clean_id) = 12
             THEN SubSeq(clean_id, 1, 4) \o <<"-">> \o SubSeq(clean_id, 5, 8)
                  \o <<"-">> \o SubSeq(clean_id, 9, 12)
             ELSE clean_id

_dict_to_claim_record(claim_dict) ==
    [unique_id |-> claim_dict.unique_id,
     encounter_type |-> claim_dict.encounter_type,
     national_id |-> claim_dict.national_id,
     member_id |-> claim_dict.member_id,
     facility_id |-> claim_dict.facility_id,
     diagnosis_codes |-> validate_diagnosis_codes(claim_dict.diagnosis_codes),
     service_code |-> claim_dict.service_code,
     paid_amount_aed |-> claim_dict.paid_amount_aed,
     approval_number |-> normalize_approval_number(claim_dict.approval_number),
     tenant_id |-> "default",
     status |-> PENDING,
     error_type |-> NO_ERROR,
     error_explanation |-> <<>>,
     recommended_action |-> {}]

(***************************************************************************)
(* upload_claims (main.py): one row of the file to one stored document     *)
(***************************************************************************)
\* Variant for C25: the unique_id is stripped and upper-cased but stored
\* without re-hyphenation.
upload_unique_id_as_given(raw) ==
    str_upper(str_strip(raw))

\* unique_id: strip, upper-case, and re-hyphenate when 12 characters remain
\* without the hyphens
upload_unique_id(raw) ==
    LET raw_unique_id == str_upper(str_strip(raw))
        clean_id == str_remove(raw_unique_id, "-")
    IN  IF Len(clean_id) = 12
        THEN SubSeq(clean_id, 1, 4) \o <<"-">> \o SubSeq(clean_id, 5, 8)
             \o <<"-">> \o SubSeq(clean_id, 9, 12)
        ELSE raw_unique_id

upload_approval_number(raw) ==
    IF str_upper(raw) \in
           { <<"N", "A">>, <<"N", "/", "A">>, <<"N", "A", "N">>,
             <<"N", "O", "N", "E">>, <<"N", "U", "L", "L">> }
    THEN <<>>
    ELSE raw

\* cell.replace(';', ',').split(',')
RECURSIVE split_codes(_)
split_codes(cell) ==
    LET Separator(i) == i \in DOMAIN cell /\ cell[i] \in {";", ","} IN
    IF \E i \in DOMAIN cell : Separator(i)
    THEN LET at == CHOOSE i \in DOMAIN cell :
                       Separator(i) /\ \A j \in 1..(i - 1) : ~Separator(j)
         IN  <<SubSeq(cell, 1, at - 1)>>
             \o split_codes(SubSeq(cell, at + 1, Len(cell)))
    ELSE <<cell>>

\* The diagnosis codes of a row: the cell split at ';' and ',', each piece
\* stripped, empty pieces dropped; no codes for an empty cell.
upload_diagnosis_codes(cell) ==
    LET NonEmpty(code) == code /= <<>>
        pieces == split_codes(cell)
    IN  IF cell = <<>> THEN <<>>
        ELSE SelectSeq([i \in DOMAIN pieces |-> str_strip(pieces[i])], NonEmpty)

\* The cell of a file that lists the codes separated by ';'
RECURSIVE diagnosis_cell(_)
diagnosis_cell(codes) ==
    IF codes = <<>> THEN <<>>
    ELSE IF Len(codes) = 1 THEN codes[1]
         ELSE codes[1] \o <<";">> \o diagnosis_cell(Tail(codes))

upload_claim_document(row, tenant_id) ==
    [unique_id |-> upload_unique_id(row.unique_id),
     encounter_type |-> str_upper(str_strip(row.encounter_type)),
     national_id |-> str_upper(str_strip(row.national_id)),
     member_id |-> str_upper(str_strip(row.member_id)),
     facility_id |-> str_upper(str_strip(row.facility_id)),
     diagnosis_codes |-> upload_diagnosis_codes(row.diagnosis_codes),
     service_code |-> str_strip(row.service_code),
     paid_amount_aed |-> row.paid_amount_aed,
     approval_number |-> upload_approval_number(row.approval_number),
     tenant_id |-> tenant_id,
     status |-> PENDING,
     error_type |-> NO_ERROR,
     error_explanation |-> <<>>,
     recommended_action |-> {},
     validated_at |-> 0]

(***************************************************************************)
(* The augmentation opinion (LLMService.evaluate_claim's return value) and *)
(* how ValidationService uses it                                           *)
(***************************************************************************)
\* LLMService._default_response
_default_response ==
    [has_additional_errors |-> FALSE, additional_errors |-> <<>>,
     enhanced_explanation |-> <<>>, recommended_action |-> "",
     confidence_score |-> 0]

\* f"AI Insight: {enhanced_explanation}"
ai_insight(enhanced_explanation) ==
    Finding("ai_insight", "", <<>>, <<>>, enhanced_explanation, <<>>, 0)
\* one string of additional_errors, kept as the LLM wrote it
llm_error(error) == Finding("llm_additional", "", <<>>, <<>>, error, <<>>, 0)

\* _combine_validation_results: the keywords that route an additional error
\* to the technical list
technical_keywords ==
    { <<"a", "p", "p", "r", "o", "v", "a", "l">>,
      <<"t", "h", "r", "e", "s", "h", "o", "l", "d">>,
      <<"f", "o", "r", "m", "a", "t">>,
      <<"i", "d">>,
      <<"a", "m", "o", "u", "n", "t">> }
is_technical_error_text(error) ==
    \E keyword \in technical_keywords : str_contains(keyword, str_lower(error))

\* ValidationService._combine_validation_results.  No call of it is left in
\* the service: _process_claims_batch has the call commented out.
_combine_validation_results(static_result, llm_result, claim) ==
    LET llm_errors ==
            IF llm_result.has_additional_errors
            THEN llm_result.additional_errors
            ELSE <<>>
        Tech(error) == is_technical_error_text(error)
        Med(error) == ~is_technical_error_text(error)
        tech_texts == SelectSeq(llm_errors, Tech)
        med_texts == SelectSeq(llm_errors, Med)
        all_technical_errors ==
            static_result.technical_errors
            \o [i \in DOMAIN tech_texts |-> llm_error(tech_texts[i])]
        all_medical_errors ==
            static_result.medical_errors
            \o [i \in DOMAIN med_texts |-> llm_error(med_texts[i])]
        final_error_type ==
            IF all_technical_errors /= <<>> /\ all_medical_errors /= <<>> THEN BOTH
            ELSE IF all_technical_errors /= <<>> THEN TECHNICAL_ERROR
                 ELSE IF all_medical_errors /= <<>> THEN MEDICAL_ERROR
                      ELSE NO_ERROR
        final_status ==
            IF all_technical_errors /= <<>> \/ all_medical_errors /= <<>>
            THEN NOT_VALIDATED
            ELSE VALIDATED
    IN  ValidationResult(
            claim.unique_id, final_status, final_error_type,
            all_technical_errors \o all_medical_errors,
            IF llm_result.recommended_action /= ""
            THEN static_result.recommended_action \cup {llm_result.recommended_action}
            ELSE static_result.recommended_action,
            static_result.technical_errors, static_result.medical_errors)

\* Variant for C4: the result is the merge _combine_validation_results makes.
augment_result_merging(static_result, llm_result) ==
    _combine_validation_results(static_result, llm_result, static_result)

\* Variant for C5: the insight is put in front of the findings.
augment_result_insight_first(static_result, llm_result) ==
    IF llm_result.enhanced_explanation /= <<>>
    THEN [static_result EXCEPT
              !.error_explanation =
                  <<ai_insight(llm_result.enhanced_explanation)>> \o @]
    ELSE static_result

\* The loop body of _process_claims_batch after the LLM call (use_llm = True):
\* the static result with the insight appended to error_explanation.
augment_result(static_result, llm_result) ==
    IF llm_result.enhanced_explanation /= <<>>
    THEN [static_result EXCEPT
              !.error_explanation =
                  Append(@, ai_insight(llm_result.enhanced_explanation))]
    ELSE static_result

\* Variant for C7: the exception is swallowed and the claim passes.
failed_result_swallowed(claim_data, message) ==
    ValidationResult(claim_data.unique_id, VALIDATED, NO_ERROR, <<>>,
                     {"No action required - claim is valid"}, <<>>, <<>>)

\* The except branch of _process_claims_batch: the failed validation result.
\* message is str(e).
failed_result(claim_data, message) ==
    LET e == Finding("processing_error", "", <<>>, <<>>, message, <<>>, 0) IN
    ValidationResult(claim_data.unique_id, NOT_VALIDATED, TECHNICAL_ERROR,
                     <<e>>, {"Review claim data format"}, <<e>>, <<>>)

(***************************************************************************)
(* Inputs: tenants, the rows of uploaded claim files, rule files, opinions *)
(***************************************************************************)
Tenants == {"A", "B"}

\* no finding under the built-in rules; given in lower case without hyphens
row_clean ==
    [unique_id |-> <<"a", "b", "c", "d", "a", "2", "3", "4", "d", "l", "m", "t">>,
     encounter_type |-> OUTPATIENT,
     national_id |-> <<"a", "b", "c", "d", "1", "2", "3", "4", "x", "x", "x", "x">>,
     member_id |-> <<"X", "X", "A", "2", "3", "4", "0", "0", "0", "0">>,
     facility_id |-> <<"9", "6", "g", "u", "d", "l", "m", "t">>,
     diagnosis_codes |-> diagnosis_cell(<<<<"E", "6", "6", ".", "9">>>>),
     service_code |-> <<"S", "R", "V", "2", "0", "0", "3">>,
     paid_amount_aed |-> 100,
     approval_number |-> <<"N", "A">>]
\* approval needed for three reasons and none given
row_technical ==
    [unique_id |-> <<"E", "F", "G", "H", "-", "A", "2", "3", "4", "-", "D", "L", "M", "T">>,
     encounter_type |-> OUTPATIENT,
     national_id |-> <<"E", "F", "G", "H", "5", "6", "7", "8">>,
     member_id |-> <<"X", "X", "A", "2", "3", "4", "0", "0", "0", "0">>,
     facility_id |-> <<"9", "6", "G", "U", "D", "L", "M", "T">>,
     diagnosis_codes |-> diagnosis_cell(<<<<"Z", "3", "4", ".", "0">>>>),
     service_code |-> <<"S", "R", "V", "2", "0", "0", "8">>,
     paid_amount_aed |-> 300,
     approval_number |-> <<>>]
\* an inpatient-only service on an outpatient encounter, approval given
row_medical ==
    [unique_id |-> <<"I", "J", "K", "L", "-", "A", "2", "3", "4", "-", "D", "L", "M", "T">>,
     encounter_type |-> OUTPATIENT,
     national_id |-> <<"I", "J", "K", "L", "9", "0", "1", "2">>,
     member_id |-> <<"X", "X", "A", "2", "3", "4", "0", "0", "0", "0">>,
     facility_id |-> <<"9", "6", "G", "U", "D", "L", "M", "T">>,
     diagnosis_codes |-> diagnosis_cell(<<<<"E", "6", "6", ".", "9">>>>),
     service_code |-> <<"S", "R", "V", "1", "0", "0", "1">>,
     paid_amount_aed |-> 100,
     approval_number |-> <<"A", "P", "P", "1", "2", "3">>]
\* technical and medical findings
row_both ==
    [unique_id |-> <<"M", "N", "O", "P", "-", "A", "2", "3", "4", "-", "W", "X", "Y", "Z">>,
     encounter_type |-> <<" ", "I", "n", "p", "a", "t", "i", "e", "n", "t", "\n">>,
     national_id |-> <<"M", "N", "O", "P", "3", "4", "5", "6">>,
     member_id |-> <<"X", "X", "A", "2", "3", "4", "0", "0", "0", "0">>,
     facility_id |-> <<"0", "0", "0", "0", "W", "X", "Y", "Z">>,
     diagnosis_codes |-> <<" ", "R", "7", "3", ".", "0", "3", " ", ",",
                            "E", "1", "1", ".", "9", ";", " ">>,
     service_code |-> <<" ", "S", "R", "V", "1", "0", "0", "2", "\t">>,
     paid_amount_aed |-> 250,
     approval_number |-> <<" ", "p", "e", "n", "d", "i", "n", "g", " ">>]
\* the ClaimRecord constructor raises on it: a segment of digits only
row_invalid ==
    [unique_id |-> <<"A", "B", "C", "D", "-", "1", "2", "3", "4", "-", "W", "X", "Y", "Z">>,
     encounter_type |-> OUTPATIENT,
     national_id |-> <<"A", "B", "C", "D", "1", "2", "3", "4", "X", "X", "X", "X">>,
     member_id |-> <<"X", "X", "1", "2", "3", "4", "0", "0", "0", "0">>,
     facility_id |-> <<"0", "0", "0", "0", "W", "X", "Y", "Z">>,
     diagnosis_codes |-> diagnosis_cell(<<<<"E", "6", "6", ".", "9">>>>),
     service_code |-> <<"S", "R", "V", "2", "0", "0", "3">>,
     paid_amount_aed |-> 100,
     approval_number |-> <<>>]

ClaimFiles ==
    { <<row_clean, row_invalid, row_both>>, <<row_technical, row_medical>> }

\* The k-th row of a long file: rows differ in the first segment; every
\* fourth row has an encounter type the ClaimRecord constructor rejects.
long_file_row(k) ==
    [unique_id |-> <<"A", "B", "C", UpperChars[k]>>
                   \o <<"-", "A", "2", "3", "4", "-", "D", "L", "M", "T">>,
     encounter_type |-> IF k % 4 = 0
                        THEN <<"E", "M", "E", "R", "G", "E", "N", "C", "Y">>
                        ELSE OUTPATIENT,
     national_id |-> <<"A", "B", "C", UpperChars[k], "1", "2", "3", "4">>,
     member_id |-> <<"X", "X", "A", "2", "3", "4", "0", "0", "0", "0">>,
     facility_id |-> <<"9", "6", "G", "U", "D", "L", "M", "T">>,
     diagnosis_codes |-> diagnosis_cell(<<<<"E", "6", "6", ".", "9">>>>),
     service_code |-> <<"S", "R", "V", "2", "0", "0", "3">>,
     paid_amount_aed |-> 100,
     approval_number |-> <<>>]
long_file(n) == [k \in 1..n |-> long_file_row(k)]

\* The opinions the provider returns in the model
llm_insight ==
    [has_additional_errors |-> FALSE, additional_errors |-> <<>>,
     enhanced_explanation |-> <<"o", "k">>, recommended_action |-> "",
     confidence_score |-> 1]
llm_additional ==
    [has_additional_errors |-> TRUE,
     additional_errors |->
         << <<"n", "o", " ", "a", "p", "p", "r", "o", "v", "a", "l">>,
            <<"b", "a", "d", " ", "d", "x">> >>,
     enhanced_explanation |-> <<>>, recommended_action |-> "Manual review",
     confidence_score |-> 1]
\* what _extract_and_parse_json returns for text that holds no JSON
llm_unparsed ==
    [has_additional_errors |-> TRUE,
     additional_errors |->
         << <<"C", "o", "u", "l", "d", " ", "n", "o", "t", " ", "p", "a", "r",
              "s", "e", " ", "L", "L", "M", " ", "r", "e", "s", "p", "o", "n",
              "s", "e">> >>,
     enhanced_explanation |-> <<"r", "a", "w">>,
     recommended_action |-> "Manual review required",
     confidence_score |-> 0]
Opinions == {_default_response, llm_insight, llm_additional, llm_unparsed}

(***************************************************************************)
(* LLMService.evaluate_claim: the provider's text, its parse, the check of *)
(* the parsed value and the retries                                        *)
(***************************************************************************)
max_retries == 2

\* A value json.loads returns, with its Python type: "bool", "int", "float",
\* "str", "list", "dict" or "NoneType".  The value of a dict is a record of
\* such values.
Json(type, value) == [type |-> type, value |-> value]

\* the dict whose values are those of a well-typed opinion
opinion_dict(opinion) ==
    Json("dict",
         [has_additional_errors |-> Json("bool", opinion.has_additional_errors),
          additional_errors |-> Json("list", opinion.additional_errors),
          enhanced_explanation |-> Json("str", opinion.enhanced_explanation),
          recommended_action |-> Json("str", opinion.recommended_action),
          confidence_score |-> Json("float", opinion.confidence_score)])

\* The opinion evaluate_claim hands on, as the record of the values of an
\* accepted dict.  A bool given as confidence_score is the number it equals
\* (True == 1).
dict_values(response) ==
    [field \in DOMAIN response.value |->
        IF field = "confidence_score" /\ response.value[field].type = "bool"
        THEN (IF response.value[field].value THEN 1 ELSE 0)
        ELSE response.value[field].value]

\* One answer of the provider: the text of response.content, and what
\* json.loads gives for the whole stripped text (direct), for the body of a
\* fenced block in it (fenced) and for the span from its first "{" to its
\* last "}" (embedded); <<>> where json.loads raises or the pattern finds
\* nothing.
RawResponse(text, direct, fenced, embedded) ==
    [text |-> text, direct |-> direct, fenced |-> fenced, embedded |-> embedded]

\* raw = response.content.strip() in evaluate_claim: the text that is parsed
response_content_strip(response) == [response EXCEPT !.text = str_strip(@)]

\* LLMService._extract_and_parse_json
_extract_and_parse_json(raw) ==
    IF raw.direct /= <<>> THEN raw.direct[1]
    ELSE IF raw.fenced /= <<>> THEN raw.fenced[1]
         ELSE IF raw.embedded /= <<>> THEN raw.embedded[1]
              ELSE opinion_dict(
                       [has_additional_errors |-> TRUE,
                        additional_errors |->
                            << <<"C", "o", "u", "l", "d", " ", "n", "o", "t", " ",
                                 "p", "a", "r", "s", "e", " ", "L", "L", "M", " ",
                                 "r", "e", "s", "p", "o", "n", "s", "e">> >>,
                        enhanced_explanation |-> str_first(raw.text, 500),
                        recommended_action |-> "Manual review required",
                        confidence_score |-> 0])

\* isinstance(value, expected_type) for the types of required_fields; bool
\* is a subclass of int
required_fields ==
    [has_additional_errors |-> {"bool"},
     additional_errors |-> {"list"},
     enhanced_explanation |-> {"str"},
     recommended_action |-> {"str"},
     confidence_score |-> {"int", "float", "bool"}]

\* LLMService._validate_response: every required field is there and its
\* value has the required type.  For a parsed value that is no dict the
\* method returns False or raises TypeError; evaluate_claim goes on to the
\* next attempt in both cases.
_validate_response(response) ==
    /\ response.type = "dict"
    /\ \A field \in DOMAIN required_fields :
           /\ field \in DOMAIN response.value
           /\ response.value[field].type \in required_fields[field]

\* the attempts of evaluate_claim whose parsed value passes
\* _validate_response; attempts[n] is what the n-th call of the chain does:
\* it raises, or it returns a text
accepted_attempts(attempts) ==
    {n \in DOMAIN attempts :
         /\ ~attempts[n].raised
         /\ _validate_response(_extract_and_parse_json(
                                   response_content_strip(attempts[n].raw[1])))}

\* the number of times evaluate_claim calls chain.invoke: the loop ends at
\* the first accepted attempt, or after the last one
chain_invocations(attempts) ==
    IF accepted_attempts(attempts) = {} THEN Len(attempts)
    ELSE CHOOSE n \in accepted_attempts(attempts) :
             \A m \in accepted_attempts(attempts) : n <= m

\* LLMService.evaluate_claim for max_retries = Len(attempts).  The first
\* attempt whose parsed value passes _validate_response is returned; after
\* max_retries attempts the default response is.
evaluate_claim(attempts) ==
    LET valid == {n \in DOMAIN attempts :
                      /\ ~attempts[n].raised
                      /\ _validate_response(_extract_and_parse_json(
                                   response_content_strip(attempts[n].raw[1])))}
    IN  IF valid = {} THEN _default_response
        ELSE dict_values(_extract_and_parse_json(response_content_strip(
                 attempts[CHOOSE n \in valid : \A m \in valid : n <= m].raw[1])))

\* the answers of the provider in the model ("~" stands for the backquote)
raw_json ==
    RawResponse(<<"{", "j", "s", "o", "n", "}">>,
                <<opinion_dict(llm_insight)>>, <<>>, <<>>)
raw_fenced ==
    RawResponse(<<"~", "~", "~", "{", "j", "s", "o", "n", "}", "~", "~", "~">>,
                <<>>, <<opinion_dict(llm_additional)>>,
                <<opinion_dict(llm_additional)>>)
raw_missing_field ==
    RawResponse(<<"{", "p", "a", "r", "t", "}">>,
                <<Json("dict",
                       [has_additional_errors |-> Json("bool", FALSE),
                        enhanced_explanation |-> Json("str", <<"n", "o">>)])>>,
                <<>>, <<>>)
\* the five fields, has_additional_errors given as the string "true"
raw_wrong_type ==
    RawResponse(<<"{", "s", "t", "r", "}">>,
                <<Json("dict",
                       [opinion_dict(llm_additional).value EXCEPT
                           !.has_additional_errors =
                               Json("str", <<"t", "r", "u", "e">>)])>>,
                <<>>, <<>>)
\* the five fields, confidence_score given as true
raw_bool_score ==
    RawResponse(<<"{", "b", "o", "o", "l", "}">>,
                <<Json("dict",
                       [opinion_dict(llm_insight).value EXCEPT
                           !.enhanced_explanation = Json("str", <<"s", "u", "r", "e">>),
                           !.confidence_score = Json("bool", TRUE)])>>,
                <<>>, <<>>)
\* a JSON list
raw_list == RawResponse(<<"[", "]">>, <<Json("list", <<>>)>>, <<>>, <<>>)
raw_text == RawResponse(<<"r", "a", "w">>, <<>>, <<>>, <<>>)
raw_empty == RawResponse(<<>>, <<>>, <<>>, <<>>)
\* texts with white space around them, and of white space alone
raw_padded == RawResponse(<<" ", " ", "r", "a", "w", " ", "\n">>, <<>>, <<>>, <<>>)
raw_blank == RawResponse(<<" ", " ", " ">>, <<>>, <<>>, <<>>)
RawResponses ==
    {raw_json, raw_fenced, raw_missing_field, raw_wrong_type, raw_bool_score,
     raw_list, raw_text, raw_empty, raw_padded, raw_blank}

\* what one call of the chain does
Attempts ==
    {[raised |-> TRUE, raw |-> <<>>]}
    \cup {[raised |-> FALSE, raw |-> <<raw>>] : raw \in RawResponses}
ProviderAttempts == [1..max_retries -> Attempts]

(***************************************************************************)
(* Bounds                                                                  *)
(***************************************************************************)
MaxRuns == 2
MaxClaimUploads == 1
MaxRuleUploads == 2
MaxPending == 12
batch_size == 10

(***************************************************************************)
(* State                                                                   *)
(***************************************************************************)
VARIABLES
    claims_master,    \* the claims collection, documents in insertion order
    rules_config,     \* the rules collection: tenant -> <<>> or <<document>>
    rule_engine,      \* the RuleEngine instance shared by all runs (main.py)
    run,              \* slot -> the frame of one call of validate_claims
    analytics,        \* the analytics collection: <<tenant, category>> -> <<>> or <<record>>
    lifecycle,        \* counters: calls made so far, rule loads that failed
    analytics_response, \* what GET /analytics returned last: <<>> or <<dict>>
    analytics_request, \* the GET /analytics call in flight: <<>> or <<frame>>
    upload,           \* the POST /upload/claims call in flight: <<>> or <<frame>>
    data_management   \* the DELETE /claims calls: those in flight, the last response

vars == <<claims_master, rules_config, rule_engine, analytics, run, lifecycle,
          analytics_response, analytics_request, upload, data_management>>

\* no DELETE /claims call in flight, none answered
IdleDataManagement == [clearing |-> <<>>, removing |-> <<>>, response |-> <<>>]

Slots == {1, 2}

\* a slot with no call in progress
IdleRun ==
    [pc |-> "idle", tenant_id |-> "", rules_config |-> <<>>,
     pending_claims |-> <<>>, i |-> 0, batch |-> <<>>, j |-> 0,
     results |-> <<>>, validation_results |-> <<>>, static_result |-> <<>>,
     all_claims |-> <<>>, response |-> <<>>,
     \* history, not program state: the engine the run loaded into, the
     \* collection as fetched, per result the document and the opinion used,
     \* the documents the bulk update modified
     fetched_from |-> <<>>, processed |-> <<>>, written |-> <<>>,
     started |-> 0]

(***************************************************************************)
(* Storage operations (database/mongodb.py and the collection calls)       *)
(***************************************************************************)
\* the unique index on (tenant_id, unique_id)
is_duplicate(coll, doc) ==
    \E k \in DOMAIN coll :
        coll[k].tenant_id = doc.tenant_id /\ coll[k].unique_id = doc.unique_id

\* upload_claims' inserts: insert_one per claim skipping duplicates, or
\* insert_many, which stops at the first duplicate
RECURSIVE insert_claims(_, _, _)
insert_claims(coll, docs, skip_duplicates) ==
    IF docs = <<>> THEN coll
    ELSE IF is_duplicate(coll, Head(docs))
         THEN IF skip_duplicates
              THEN insert_claims(coll, Tail(docs), skip_duplicates)
              ELSE coll
         ELSE insert_claims(Append(coll, Head(docs)), Tail(docs), skip_duplicates)

\* Variant for C8: the fetch takes every claim of the tenant, whatever its
\* status (as MongoDB.get_claims_by_tenant does).
get_all_claims(coll, tenant_id) ==
    LET OfTenant(doc) == doc.tenant_id = tenant_id
    IN  SelectSeq(coll, OfTenant)

\* MongoDB.get_pending_claims: positions of the tenant's Pending documents
pending_positions(coll, tenant_id) ==
    {k \in DOMAIN coll : coll[k].tenant_id = tenant_id /\ coll[k].status = PENDING}
get_pending_claims(coll, tenant_id) ==
    LET IsPending(doc) == doc.tenant_id = tenant_id /\ doc.status = PENDING
    IN  SelectSeq(coll, IsPending)

\* Variant for C13: the filter of the update names the unique_id only.
update_match_any_tenant(coll, unique_id, tenant_id) ==
    LET hits == {k \in DOMAIN coll : coll[k].unique_id = unique_id}
    IN  IF hits = {} THEN 0 ELSE CHOOSE k \in hits : \A m \in hits : k <= m

\* the position an UpdateOne filter {unique_id, tenant_id} matches, 0 if none
update_match(coll, unique_id, tenant_id) ==
    LET hits == {k \in DOMAIN coll :
                     coll[k].unique_id = unique_id /\ coll[k].tenant_id = tenant_id}
    IN  IF hits = {} THEN 0 ELSE CHOOSE k \in hits : \A m \in hits : k <= m

\* one UpdateOne of _update_claims_with_results, upsert = False
update_one(coll, result, tenant_id, now) ==
    LET k == update_match(coll, result.unique_id, tenant_id) IN
    IF k = 0 THEN coll
    ELSE [coll EXCEPT ![k] =
              [@ EXCEPT !.status = result.status,
                        !.error_type = result.error_type,
                        !.error_explanation = result.error_explanation,
                        !.recommended_action = result.recommended_action,
                        !.validated_at = now]]

\* bulk_write of the first n operations, in order
RECURSIVE bulk_write(_, _, _, _, _)
bulk_write(coll, validation_results, tenant_id, now, n) ==
    IF n = 0 THEN coll
    ELSE update_one(bulk_write(coll, validation_results, tenant_id, now, n - 1),
                    validation_results[n], tenant_id, now)

\* the positions those n operations matched, in order (0: no match)
written_positions(coll, validation_results, tenant_id, n) ==
    [k \in 1..n |-> update_match(coll, validation_results[k].unique_id, tenant_id)]

(***************************************************************************)
(* ValidationService._generate_validation_summary                          *)
(***************************************************************************)
count_status(validation_results, status) ==
    Cardinality({k \in DOMAIN validation_results :
                     validation_results[k].status = status})
\* Variant for C11: a claim with both kinds of findings is also counted as a
\* technical one.
count_error_type_overlapping(validation_results, error_type) ==
    Cardinality({k \in DOMAIN validation_results :
                     \/ validation_results[k].error_type = error_type
                     \/ /\ error_type = TECHNICAL_ERROR
                        /\ validation_results[k].error_type = BOTH})

count_error_type(validation_results, error_type) ==
    Cardinality({k \in DOMAIN validation_results :
                     validation_results[k].error_type = error_type})

_generate_validation_summary(validation_results) ==
    [total |-> Len(validation_results),
     validated |-> count_status(validation_results, VALIDATED),
     not_validated |-> count_status(validation_results, NOT_VALIDATED),
     no_error |-> count_error_type(validation_results, NO_ERROR),
     technical_error_only |-> count_error_type(validation_results, TECHNICAL_ERROR),
     medical_error_only |-> count_error_type(validation_results, MEDICAL_ERROR),
     both_errors |-> count_error_type(validation_results, BOTH),
     total_with_errors |->
         count_error_type(validation_results, TECHNICAL_ERROR)
         + count_error_type(validation_results, MEDICAL_ERROR)
         + count_error_type(validation_results, BOTH)]

\* what validate_tenant_claims returns after the bulk update
run_summary(validation_results) ==
    [status_code |-> 200, detail |-> "",
     total_claims |-> Len(validation_results),
     validated_claims |-> count_status(validation_results, VALIDATED),
     error_claims |->
         Len(validation_results) - count_status(validation_results, VALIDATED),
     summary |-> _generate_validation_summary(validation_results)]

\* what it returns when no claim is pending
no_pending_summary ==
    [status_code |-> 200, detail |-> "No pending claims found",
     total_claims |-> 0, validated_claims |-> 0, error_claims |-> 0,
     summary |-> [total |-> 0, validated |-> 0, not_validated |-> 0,
                  no_error |-> 0, technical_error |-> 0, medical_error |-> 0,
                  both_errors |-> 0]]

\* the HTTP error of the handler
error_response(status_code, detail) ==
    [status_code |-> status_code, detail |-> detail]

(***************************************************************************)
(* Rule files and the rules collection                                     *)
(***************************************************************************)
\* the text extracted from an uploaded rule file; <<>> is "no file sent"
RuleTexts == {"Approval is required above AED 250"}
RuleUploads == {<<>>} \cup {<<text>> : text \in RuleTexts}

\* MongoDB.upsert_rules_config: $set of the keys sent, upsert
upsert_rules_config(config, technical_rules, medical_rules) ==
    LET old == IF config = <<>>
               THEN [technical_rules |-> <<>>, medical_rules |-> <<>>]
               ELSE config[1]
    IN  << [technical_rules |->
                IF technical_rules /= <<>> THEN technical_rules
                ELSE old.technical_rules,
            medical_rules |->
                IF medical_rules /= <<>> THEN medical_rules
                ELSE old.medical_rules] >>

\* ValidationService._load_tenant_rules on an engine: only the keys the
\* document has are parsed; the other rule family is left as it was
_load_tenant_rules(engine, config) ==
    [technical_rules |->
         IF config.technical_rules /= <<>>
         THEN <<parse_technical_rules(config.technical_rules[1])>>
         ELSE engine.technical_rules,
     medical_rules |->
         IF config.medical_rules /= <<>>
         THEN <<parse_medical_rules(config.medical_rules[1])>>
         ELSE engine.medical_rules]

\* RuleEngine.__init__
new_rule_engine == [technical_rules |-> <<>>, medical_rules |-> <<>>]

(***************************************************************************)
(* Float arithmetic of the percentages                                     *)
(***************************************************************************)
\* Python floats (IEEE 754 binary64, round to nearest, ties to even) for the
\* percentages.  A natural number is the sequence of its digits in base
\* 2^15, least significant first, without leading zeros; a positive float is
\* [mantissa |-> a natural number of 53 binary digits, exponent |-> e] and
\* stands for mantissa * 2^exponent.
mantissa_bits == 53
digit_bits == 15

RECURSIVE pow2(_)
pow2(k) == IF k = 0 THEN 1 ELSE 2 * pow2(k - 1)

digit_base == pow2(digit_bits)

RECURSIVE to_digits(_)
to_digits(n) == IF n = 0 THEN <<>> ELSE <<n % digit_base>> \o to_digits(n \div digit_base)

strip_leading_zeros(a) ==
    IF \A i \in DOMAIN a : a[i] = 0 THEN <<>>
    ELSE LET top == CHOOSE i \in DOMAIN a : a[i] /= 0 /\ \A j \in (i + 1)..Len(a) : a[j] = 0
         IN  SubSeq(a, 1, top)

RECURSIVE digits_add(_, _, _)
digits_add(a, b, carry) ==
    IF a = <<>> /\ b = <<>>
    THEN IF carry = 0 THEN <<>> ELSE <<carry>>
    ELSE LET s == (IF a = <<>> THEN 0 ELSE Head(a)) + (IF b = <<>> THEN 0 ELSE Head(b)) + carry
         IN  <<s % digit_base>> \o digits_add(IF a = <<>> THEN <<>> ELSE Tail(a),
                                              IF b = <<>> THEN <<>> ELSE Tail(b),
                                              s \div digit_base)

\* a * factor + carry for 0 <= factor, carry <= 2^15
RECURSIVE digits_mul(_, _, _)
digits_mul(a, factor, carry) ==
    IF a = <<>> THEN to_digits(carry)
    ELSE LET p == Head(a) * factor + carry
         IN  <<p % digit_base>> \o digits_mul(Tail(a), factor, p \div digit_base)

\* the number of binary digits of a
bit_length(a) ==
    IF a = <<>> THEN 0
    ELSE (Len(a) - 1) * digit_bits
         + (CHOOSE k \in 1..digit_bits : pow2(k - 1) <= a[Len(a)] /\ a[Len(a)] < pow2(k))

\* a * 2^count
shift_left(a, count) ==
    IF a = <<>> THEN <<>>
    ELSE [i \in 1..(count \div digit_bits) |-> 0]
         \o strip_leading_zeros(digits_mul(a, pow2(count % digit_bits), 0))

\* a \div 2^count
shift_right(a, count) ==
    LET whole == count \div digit_bits
        part == count % digit_bits
        rest == IF whole >= Len(a) THEN <<>> ELSE SubSeq(a, whole + 1, Len(a))
    IN  strip_leading_zeros(
            [i \in DOMAIN rest |->
                (rest[i] \div pow2(part))
                + (IF i < Len(rest) THEN (rest[i + 1] % pow2(part)) * pow2(digit_bits - part)
                   ELSE 0)])

\* a <= b
digits_le(a, b) ==
    \/ Len(a) < Len(b)
    \/ /\ Len(a) = Len(b)
       /\ \A i \in DOMAIN a : a[i] > b[i] => \E j \in (i + 1)..Len(a) : a[j] < b[j]

\* the float nearest to a * 2^exponent (a /= <<>>), ties to even
round_to_double(a, exponent) ==
    LET drop == bit_length(a) - mantissa_bits
    IN  IF drop <= 0
        THEN [mantissa |-> shift_left(a, 0 - drop), exponent |-> exponent + drop]
        ELSE LET kept == shift_right(a, drop)
                 below == shift_right(a, drop - 1)
                 half == below[1] % 2 = 1
                 sticky == shift_left(below, drop - 1) /= a
                 round_up == half /\ (sticky \/ kept[1] % 2 = 1)
                 m == IF round_up THEN digits_add(kept, <<1>>, 0) ELSE kept
             IN  IF bit_length(m) > mantissa_bits
                 THEN [mantissa |-> shift_right(m, 1), exponent |-> exponent + drop + 1]
                 ELSE [mantissa |-> m, exponent |-> exponent + drop]

\* the first count digits after the point of r / d in base 2^15
\* (0 <= r < d <= 2^15), least significant first
RECURSIVE fraction_digits(_, _, _)
fraction_digits(r, d, count) ==
    IF count = 0 THEN <<>>
    ELSE fraction_digits((r * digit_base) % d, d, count - 1) \o <<(r * digit_base) \div d>>

\* what is left of r / d after count digits
RECURSIVE fraction_remainder(_, _, _)
fraction_remainder(r, d, count) ==
    IF count = 0 THEN r ELSE fraction_remainder((r * digit_base) % d, d, count - 1)

\* n / d for two positive ints up to 2^15: the correctly rounded quotient.
\* The quotient is computed to 75 binary digits after the point, more than a
\* float holds, and a last digit records whether anything is left after them.
float_div(n, d) ==
    LET places == 5
        quotient == strip_leading_zeros(fraction_digits(n % d, d, places) \o to_digits(n \div d))
        inexact == IF fraction_remainder(n % d, d, places) = 0 THEN 0 ELSE 1
    IN  round_to_double(digits_mul(quotient, 2, inexact), 0 - (places * digit_bits + 1))

\* float * int for a positive int up to 2^15
float_mul(x, factor) == round_to_double(digits_mul(x.mantissa, factor, 0), x.exponent)

\* float + float
float_add(x, y) ==
    LET e == IF x.exponent < y.exponent THEN x.exponent ELSE y.exponent
    IN  round_to_double(digits_add(shift_left(x.mantissa, x.exponent - e),
                                   shift_left(y.mantissa, y.exponent - e), 0), e)

\* float(n) for a positive int
to_float(n) == round_to_double(to_digits(n), 0)

\* abs(x - n) <= 2^(0 - precision) for a float x and a positive int n
float_close(x, n, precision) ==
    LET e == IF x.exponent < 0 - precision THEN x.exponent ELSE 0 - precision
        value == shift_left(x.mantissa, x.exponent - e)
        target == shift_left(to_digits(n), 0 - e)
        epsilon == shift_left(<<1>>, (0 - precision) - e)
    IN  /\ digits_le(value, digits_add(target, epsilon, 0))
        /\ digits_le(target, digits_add(value, epsilon, 0))

(***************************************************************************)
(* Analytics (services/analytics_service.py)                               *)
(***************************************************************************)
error_categories == <<NO_ERROR, TECHNICAL_ERROR, MEDICAL_ERROR, BOTH>>

RECURSIVE sum_amounts(_)
sum_amounts(docs) ==
    IF docs = <<>> THEN 0 ELSE Head(docs).paid_amount_aed + sum_amounts(Tail(docs))

\* MongoDB.get_claims_by_tenant: the tenant's documents, latest upload first,
\* skip of them left out and at most limit returned
get_claims_by_tenant(coll, tenant_id, skip, limit) ==
    LET docs == SelectSeq(coll, LAMBDA doc : doc.tenant_id = tenant_id)
        latest_first == [i \in DOMAIN docs |-> docs[Len(docs) + 1 - i]]
        last == IF skip + limit < Len(docs) THEN skip + limit ELSE Len(docs)
    IN  SubSeq(latest_first, skip + 1, last)

analytics_limit == 10000

\* error_categories[category] after the loop of generate_analytics over the
\* claims it read: <<>> when the count is 0
analytics_record(all_claims, category) ==
    LET docs == SelectSeq(all_claims, LAMBDA claim : claim.error_type = category)
    IN  IF docs = <<>> THEN <<>>
        ELSE << [claim_count |-> Len(docs), total_paid_amount |-> sum_amounts(docs)] >>

\* analytics_records of generate_analytics: the categories whose count is
\* above 0, in the order of error_categories
analytics_records(all_claims) ==
    SelectSeq(error_categories,
              LAMBDA category : analytics_record(all_claims, category) /= <<>>)

\* MongoDB.upsert_analytics for the first n of the analytics_records (all of
\* them when the bulk write succeeds): the record of each of these
\* categories is set, the records of the others stay as they are
upsert_analytics(stored, all_claims, tenant_id, n) ==
    [key \in DOMAIN stored |->
        IF /\ key[1] = tenant_id
           /\ \E i \in 1..n : i \in DOMAIN analytics_records(all_claims)
                               /\ analytics_records(all_claims)[i] = key[2]
        THEN analytics_record(all_claims, key[2])
        ELSE stored[key]]

\* Variant for C20: the percentage as a whole number, the fraction cut off.
percentage_truncated(count, total_claims) ==
    IF total_claims > 0 THEN <<to_float((count * 100) \div total_claims)>> ELSE <<>>

\* (data["count"] / total_claims * 100) if total_claims > 0 else 0
percentage(count, total_claims) ==
    IF total_claims > 0 THEN <<float_mul(float_div(count, total_claims), 100)>> ELSE <<>>

\* sum() of the percentage fields of a chart, left to right: <<>> for an
\* empty chart, else <<float>>
RECURSIVE sum_percentages(_)
sum_percentages(chart) ==
    IF chart = <<>> THEN <<>>
    ELSE LET before == sum_percentages(SubSeq(chart, 1, Len(chart) - 1))
             last == chart[Len(chart)].percentage
         IN  IF before = <<>> THEN last
             ELSE IF last = <<>> THEN before
             ELSE <<float_add(before[1], last[1])>>

\* what generate_analytics returns for the claims it read (generated_at left
\* out); a percentage is <<float>>
generate_analytics(all_claims, tenant_id) ==
    LET total_claims == Len(all_claims)
        validated_count == Len(SelectSeq(all_claims, LAMBDA claim : claim.status = VALIDATED))
        not_validated_count == Len(SelectSeq(all_claims, LAMBDA claim : claim.status /= VALIDATED))
        in_category(category) == SelectSeq(all_claims, LAMBDA claim : claim.error_type = category)
        technical_only == Len(in_category(TECHNICAL_ERROR))
        medical_only == Len(in_category(MEDICAL_ERROR))
        both_errors == Len(in_category(BOTH))
        no_errors == Len(in_category(NO_ERROR))
        with_claims == SelectSeq(error_categories, LAMBDA category : in_category(category) /= <<>>)
    IN  IF all_claims = <<>>
        THEN [tenant_id |-> tenant_id,
              total_claims |-> 0,
              validation_summary |-> [total |-> 0, validated |-> 0, not_validated |-> 0],
              error_summary |-> [technical_only |-> 0, medical_only |-> 0, both_errors |-> 0,
                                 no_errors |-> 0, total_errors |-> 0],
              error_distribution |-> <<>>,
              claims_by_error_chart |-> <<>>,
              amounts_by_error_chart |-> <<>>]
        ELSE [tenant_id |-> tenant_id,
              total_claims |-> total_claims,
              validation_summary |->
                  [total |-> total_claims,
                   validated |-> validated_count,
                   not_validated |-> not_validated_count],
              error_summary |->
                  [technical_only |-> technical_only, medical_only |-> medical_only,
                   both_errors |-> both_errors, no_errors |-> no_errors,
                   total_errors |-> technical_only + medical_only + both_errors],
              error_distribution |->
                  [i \in DOMAIN with_claims |->
                      [error_category |-> with_claims[i],
                       claim_count |-> Len(in_category(with_claims[i])),
                       total_paid_amount |-> sum_amounts(in_category(with_claims[i]))]],
              claims_by_error_chart |->
                  [i \in DOMAIN with_claims |->
                      [category |-> with_claims[i],
                       value |-> Len(in_category(with_claims[i])),
                       count |-> Len(in_category(with_claims[i])),
                       percentage |-> percentage(Len(in_category(with_claims[i])), total_claims)]],
              amounts_by_error_chart |->
                  [i \in DOMAIN with_claims |->
                      [category |-> with_claims[i],
                       value |-> sum_amounts(in_category(with_claims[i])),
                       count |-> Len(in_category(with_claims[i]))]]]

(***************************************************************************)
(* The initial state: the service has started, the collections are empty   *)
(***************************************************************************)
Init ==
    /\ analytics_response = <<>>
    /\ analytics_request = <<>>
    /\ upload = <<>>
    /\ data_management = IdleDataManagement
    /\ claims_master = <<>>
    /\ rules_config = [t \in Tenants |-> <<>>]
    /\ rule_engine = new_rule_engine
    /\ analytics = [key \in Tenants \X Range(error_categories) |-> <<>>]
    /\ run = [r \in Slots |-> IdleRun]
    /\ lifecycle = [runs |-> 0, claim_uploads |-> 0, rule_uploads |-> 0,
                    load_failures |-> 0]

(***************************************************************************)
(* POST /upload/rules                                                      *)
(***************************************************************************)
upload_rules(tenant_id, technical_rules, medical_rules) ==
    /\ lifecycle.rule_uploads < MaxRuleUploads
    /\ rules_config' =
           [rules_config EXCEPT ![tenant_id] =
                upsert_rules_config(@, technical_rules, medical_rules)]
    /\ lifecycle' = [lifecycle EXCEPT !.rule_uploads = @ + 1]
    /\ UNCHANGED <<data_management, upload, analytics_request, analytics_response, claims_master, rule_engine, analytics, run>>

(***************************************************************************)
(* POST /upload/claims                                                     *)
(***************************************************************************)
\* upload_claims up to its inserts: the rows of the file become claims_data.
\* Without skip_duplicates the one insert_many follows, which stops at the
\* first duplicate (409); with it the claims are inserted one by one, each
\* at an await of its own.
upload_claims(tenant_id, file, skip_duplicates) ==
    /\ upload = <<>>
    /\ data_management = IdleDataManagement
    /\ lifecycle.claim_uploads < MaxClaimUploads
    /\ LET claims_data ==
               [k \in DOMAIN file |-> upload_claim_document(file[k], tenant_id)]
       IN  IF skip_duplicates
           THEN /\ upload' = <<[claims_data |-> claims_data, next |-> 1]>>
                /\ UNCHANGED claims_master
           ELSE /\ claims_master' = insert_claims(claims_master, claims_data, FALSE)
                /\ UNCHANGED upload
    /\ lifecycle' = [lifecycle EXCEPT !.claim_uploads = @ + 1]
    /\ UNCHANGED <<data_management, analytics_request, analytics_response, rules_config, rule_engine,
                   analytics, run>>

\* one insert_one of the loop over claims_data: the claim is stored unless it
\* is a duplicate (E11000) or the insert raises something else (fails); the
\* loop goes on in every case, and after the last claim the handler answers
upload_claims_insert_one(fails) ==
    /\ upload /= <<>>
    /\ LET frame == upload[1] IN
           /\ claims_master' =
                  IF fails THEN claims_master
                  ELSE insert_claims(claims_master,
                                     <<frame.claims_data[frame.next]>>, TRUE)
           /\ upload' = IF frame.next = Len(frame.claims_data) THEN <<>>
                        ELSE <<[frame EXCEPT !.next = @ + 1]>>
    /\ UNCHANGED <<data_management, analytics_request, analytics_response, rules_config, rule_engine,
                   analytics, run, lifecycle>>

(***************************************************************************)
(* POST /validate: validate_claims (main.py) and                           *)
(* ValidationService.validate_tenant_claims, one action per await          *)
(***************************************************************************)
\* db.get_rules_config; 404 when the tenant has no rules document
validate_claims(r, tenant_id) ==
    /\ run[r].pc = "idle"
    /\ lifecycle.runs < MaxRuns
    /\ lifecycle' = [lifecycle EXCEPT !.runs = @ + 1]
    /\ run' = [run EXCEPT ![r] =
           IF rules_config[tenant_id] = <<>>
           THEN [IdleRun EXCEPT !.pc = "responded", !.tenant_id = tenant_id,
                                !.started = lifecycle.runs + 1,
                                !.response = <<error_response(404, "No rules configuration found for tenant")>>]
           ELSE [IdleRun EXCEPT !.pc = "have_rules", !.tenant_id = tenant_id,
                                !.started = lifecycle.runs + 1,
                                !.rules_config = rules_config[tenant_id]]]
    /\ UNCHANGED <<data_management, upload, analytics_request, analytics_response, claims_master, rules_config, rule_engine, analytics>>

\* _load_tenant_rules returns
load_tenant_rules(r) ==
    /\ run[r].pc = "have_rules"
    /\ rule_engine' = _load_tenant_rules(rule_engine, run[r].rules_config[1])
    /\ run' = [run EXCEPT ![r].pc = "rules_loaded"]
    /\ UNCHANGED <<data_management, upload, analytics_request, analytics_response, claims_master, rules_config, analytics, lifecycle>>

\* Variant for C10: the failure of the load is recorded and the run goes on.
load_tenant_rules_fails_ignored(r, parsed_technical) ==
    /\ run[r].pc = "have_rules"
    /\ run' = [run EXCEPT ![r].pc = "rules_loaded",
                          ![r].response =
                              <<error_response(500, "Failed to load tenant rules")>>]
    /\ lifecycle' = [lifecycle EXCEPT !.load_failures = @ + 1]
    /\ UNCHANGED <<data_management, upload, analytics_request, analytics_response, claims_master, rules_config, rule_engine, analytics>>

\* _load_tenant_rules raises ValueError: validate_tenant_claims re-raises and
\* the handler answers 500.  The parse of the family named first may already
\* have replaced that family in the engine.
load_tenant_rules_fails(r, parsed_technical) ==
    /\ run[r].pc = "have_rules"
    /\ parsed_technical => run[r].rules_config[1].technical_rules /= <<>>
    /\ rule_engine' =
           IF parsed_technical
           THEN [rule_engine EXCEPT !.technical_rules =
                    <<parse_technical_rules(run[r].rules_config[1].technical_rules[1])>>]
           ELSE rule_engine
    /\ run' = [run EXCEPT ![r].pc = "responded",
                          ![r].response =
                              <<error_response(500, "Failed to load tenant rules")>>]
    /\ lifecycle' = [lifecycle EXCEPT !.load_failures = @ + 1]
    /\ UNCHANGED <<data_management, upload, analytics_request, analytics_response, claims_master, rules_config, analytics>>

\* Variant for C6: every batch after the first starts one claim early.
batch_slice_overlapping(pending_claims, i) ==
    SubSeq(pending_claims, IF i = 0 THEN 1 ELSE i,
           IF i + batch_size < Len(pending_claims)
           THEN i + batch_size ELSE Len(pending_claims))

\* pending_claims[i:i + batch_size], i counted from 0 as in the code
batch_slice(pending_claims, i) ==
    SubSeq(pending_claims, i + 1,
           IF i + batch_size < Len(pending_claims)
           THEN i + batch_size ELSE Len(pending_claims))

\* db.get_pending_claims returns; with no pending claim the run returns the
\* zero summary, else the first batch starts
fetch_pending_claims(r) ==
    /\ run[r].pc = "rules_loaded"
    /\ LET pending_claims == get_pending_claims(claims_master, run[r].tenant_id) IN
       /\ Len(pending_claims) <= MaxPending
       /\ run' = [run EXCEPT ![r] =
              IF pending_claims = <<>>
              THEN [@ EXCEPT !.pc = "analytics",
                             !.fetched_from = <<claims_master>>,
                             !.response = <<no_pending_summary>>]
              ELSE [@ EXCEPT !.pc = "batch",
                             !.fetched_from = <<claims_master>>,
                             !.pending_claims = pending_claims,
                             !.i = 0,
                             !.batch = batch_slice(pending_claims, 0),
                             !.j = 1,
                             !.results = <<>>,
                             !.validation_results = <<>>]]
    /\ UNCHANGED <<data_management, upload, analytics_request, analytics_response, claims_master, rules_config, rule_engine, analytics, lifecycle>>

\* The frame after combined_result (or the failed result) is appended to
\* results: the next claim of the batch, or, at the end of the batch,
\* validation_results.extend(batch_results) and the next batch, or, after
\* the last batch, the bulk update.
after_result(frame, result, llm) ==
    LET results == Append(frame.results, result)
        processed == Append(frame.processed,
                            [claim_data |-> frame.batch[frame.j], llm |-> llm])
    IN  IF frame.j < Len(frame.batch)
        THEN [frame EXCEPT !.pc = "batch", !.j = @ + 1, !.results = results,
                           !.static_result = <<>>, !.processed = processed]
        ELSE IF frame.i + batch_size < Len(frame.pending_claims)
             THEN [frame EXCEPT
                       !.pc = "batch",
                       !.validation_results = @ \o results,
                       !.i = @ + batch_size,
                       !.batch = batch_slice(frame.pending_claims, frame.i + batch_size),
                       !.j = 1,
                       !.results = <<>>,
                       !.static_result = <<>>,
                       !.processed = processed]
             ELSE [frame EXCEPT
                       !.pc = "write",
                       !.validation_results = @ \o results,
                       !.i = @ + batch_size,
                       !.batch = <<>>,
                       !.j = 0,
                       !.results = <<>>,
                       !.static_result = <<>>,
                       !.processed = processed]

\* One turn of the loop of _process_claims_batch up to the LLM call:
\* _dict_to_claim_record, then RuleEngine.validate_claim.  When the
\* constructor raises, the except branch appends the failed result.
process_claim(r) ==
    /\ run[r].pc = "batch"
    /\ LET claim_data == run[r].batch[run[r].j]
           raised == claim_record_errors(claim_data)
       IN  run' = [run EXCEPT ![r] =
               IF raised /= <<>>
               THEN after_result(@, failed_result(claim_data, raised), <<>>)
               ELSE [@ EXCEPT !.pc = "llm",
                              !.static_result =
                                  <<validate_claim(rule_engine,
                                                   _dict_to_claim_record(claim_data))>>]]
    /\ UNCHANGED <<data_management, upload, analytics_request, analytics_response, claims_master, rules_config, rule_engine, analytics, lifecycle>>

\* _run_llm_validation returns llm_result (the default response when the
\* provider fails); the insight, if any, is appended and the result kept
llm_returns(r, llm_result) ==
    /\ run[r].pc = "llm"
    /\ run' = [run EXCEPT ![r] =
           after_result(@, augment_result(run[r].static_result[1], llm_result),
                        <<llm_result>>)]
    /\ UNCHANGED <<data_management, upload, analytics_request, analytics_response, claims_master, rules_config, rule_engine, analytics, lifecycle>>

\* Variant for C12: the results are written as soon as one is there, claim
\* by claim, and the run goes on.
update_claims_with_results_per_claim(r) ==
    /\ run[r].pc \in {"batch", "write"}
    /\ LET frame == run[r]
           so_far == frame.validation_results \o frame.results
       IN  /\ so_far /= <<>>
           /\ claims_master' =
                  bulk_write(claims_master, so_far, frame.tenant_id,
                             frame.started, Len(so_far))
           /\ claims_master' /= claims_master
           /\ run' = [run EXCEPT ![r] =
                  [@ EXCEPT !.pc = IF frame.pc = "write" THEN "analytics" ELSE @,
                            !.written = written_positions(claims_master, so_far,
                                            frame.tenant_id, Len(so_far)),
                            !.response =
                                IF frame.pc = "write"
                                THEN <<run_summary(frame.validation_results)>>
                                ELSE @]]
    /\ UNCHANGED <<data_management, upload, analytics_request, analytics_response, rules_config, rule_engine, analytics, lifecycle>>

\* _update_claims_with_results: one UpdateOne per result, one bulk_write;
\* then the summary is returned to the handler
update_claims_with_results(r) ==
    /\ run[r].pc = "write"
    /\ LET frame == run[r]
           n == Len(frame.validation_results)
       IN  /\ claims_master' =
                  bulk_write(claims_master, frame.validation_results,
                             frame.tenant_id, frame.started, n)
           /\ run' = [run EXCEPT ![r] =
                  [@ EXCEPT !.pc = "analytics",
                            !.written = written_positions(claims_master,
                                            frame.validation_results,
                                            frame.tenant_id, n),
                            !.response = <<run_summary(frame.validation_results)>>]]
    /\ UNCHANGED <<data_management, upload, analytics_request, analytics_response, rules_config, rule_engine, analytics, lifecycle>>

\* bulk_write raises after its first n operations were applied (the bulk is
\* ordered): validate_tenant_claims re-raises and the handler answers 500
update_claims_with_results_fails(r, n) ==
    /\ run[r].pc = "write"
    /\ n < Len(run[r].validation_results)
    /\ LET frame == run[r] IN
           /\ claims_master' =
                  bulk_write(claims_master, frame.validation_results,
                             frame.tenant_id, frame.started, n)
           /\ run' = [run EXCEPT ![r] =
                  [@ EXCEPT !.pc = "responded",
                            !.written = written_positions(claims_master,
                                            frame.validation_results,
                                            frame.tenant_id, n),
                            !.response =
                                <<error_response(500, "bulk write failed")>>]]
    /\ UNCHANGED <<data_management, upload, analytics_request, analytics_response, rules_config, rule_engine, analytics, lifecycle>>

\* db.get_pending_claims raises: validate_tenant_claims re-raises and the
\* handler answers 500
fetch_pending_claims_fails(r) ==
    /\ run[r].pc = "rules_loaded"
    /\ run' = [run EXCEPT ![r].pc = "responded",
                          ![r].response =
                              <<error_response(500, "get_pending_claims failed")>>]
    /\ UNCHANGED <<data_management, upload, analytics_request, analytics_response, claims_master, rules_config, rule_engine, analytics, lifecycle>>

\* The task of the call is cancelled while it waits at an await before the
\* bulk update (_load_tenant_rules, get_pending_claims, evaluate_claim):
\* CancelledError is not an Exception, so no except branch of the service
\* takes it and the call ends without a response.
validate_claims_cancelled(r) ==
    /\ run[r].pc \in {"have_rules", "rules_loaded", "llm"}
    /\ run' = [run EXCEPT ![r].pc = "responded", ![r].response = <<>>]
    /\ UNCHANGED <<data_management, upload, analytics_request, analytics_response, claims_master, rules_config, rule_engine, analytics, lifecycle>>

\* analytics_service.generate_analytics, its first await: the claims of the
\* tenant are read.  When there is nothing to store it returns without a
\* second await and the handler answers 200.
validate_claims_analytics(r) ==
    /\ run[r].pc = "analytics"
    /\ LET all_claims == get_claims_by_tenant(claims_master, run[r].tenant_id,
                                              0, analytics_limit)
       IN  run' = [run EXCEPT ![r] =
               [@ EXCEPT !.pc = IF analytics_records(all_claims) = <<>>
                                THEN "responded" ELSE "upsert",
                         !.all_claims = all_claims]]
    /\ UNCHANGED <<data_management, upload, analytics_request, analytics_response, claims_master,
                   rules_config, rule_engine, analytics, lifecycle>>

\* generate_analytics, its second await: the records computed from the
\* claims read are upserted; then the handler's 200 response
validate_claims_upsert_analytics(r) ==
    /\ run[r].pc = "upsert"
    /\ analytics' = upsert_analytics(analytics, run[r].all_claims, run[r].tenant_id,
                                     Len(analytics_records(run[r].all_claims)))
    /\ run' = [run EXCEPT ![r].pc = "responded"]
    /\ UNCHANGED <<data_management, upload, analytics_request, analytics_response, claims_master,
                   rules_config, rule_engine, lifecycle>>

\* generate_analytics raises: get_claims_by_tenant does (n = 0), or the bulk
\* write of upsert_analytics does after its first n operations.  The handler
\* answers 500; the claims stay as the bulk update of the run wrote them.
validate_claims_analytics_fails(r, n) ==
    /\ \/ run[r].pc = "analytics" /\ n = 0
       \/ run[r].pc = "upsert" /\ n < Len(analytics_records(run[r].all_claims))
    /\ analytics' = upsert_analytics(analytics, run[r].all_claims, run[r].tenant_id, n)
    /\ run' = [run EXCEPT ![r].pc = "responded",
                          ![r].response =
                              <<error_response(500, "Validation failed")>>]
    /\ UNCHANGED <<data_management, upload, analytics_request, analytics_response, claims_master,
                   rules_config, rule_engine, lifecycle>>

\* the response has been sent: the slot is free for the next call
validate_claims_returns(r) ==
    /\ run[r].pc = "responded"
    /\ run' = [run EXCEPT ![r] = IdleRun]
    /\ UNCHANGED <<data_management, upload, analytics_request, analytics_response, claims_master, rules_config, rule_engine, analytics, lifecycle>>

(***************************************************************************)
(* The service with one validation call at a time                          *)
(***************************************************************************)
Next ==
    \/ \E t \in Tenants, technical_rules \in RuleUploads, medical_rules \in RuleUploads :
           upload_rules(t, technical_rules, medical_rules)
    \/ \E t \in Tenants, file \in ClaimFiles, skip_duplicates \in BOOLEAN :
           upload_claims(t, file, skip_duplicates)
    \/ \E fails \in BOOLEAN : upload_claims_insert_one(fails)
    \/ \E t \in Tenants : validate_claims(1, t)
    \/ load_tenant_rules(1)
    \/ \E parsed_technical \in BOOLEAN : load_tenant_rules_fails(1, parsed_technical)
    \/ fetch_pending_claims(1)
    \/ process_claim(1)
    \/ \E llm_result \in Opinions : llm_returns(1, llm_result)
    \/ update_claims_with_results(1)
    \/ \E n \in 0..MaxPending : update_claims_with_results_fails(1, n)
    \/ validate_claims_analytics(1)
    \/ validate_claims_upsert_analytics(1)
    \/ \E n \in 0..3 : validate_claims_analytics_fails(1, n)
    \/ validate_claims_returns(1)

Spec == Init /\ [][Next]_vars

(***************************************************************************)
(* Runs alone: the uploads are over.  One tenant has uploaded one claim    *)
(* file, and each tenant has any rules document, or none                   *)
(***************************************************************************)
StoredRules ==
    {<<>>} \cup {upsert_rules_config(<<>>, technical_rules, medical_rules) :
                     technical_rules \in RuleUploads, medical_rules \in RuleUploads}

InitRuns ==
    /\ analytics_response = <<>>
    /\ analytics_request = <<>>
    /\ upload = <<>>
    /\ data_management = IdleDataManagement
    /\ \E file \in ClaimFiles :
           claims_master =
               insert_claims(<<>>,
                             [k \in DOMAIN file |-> upload_claim_document(file[k], "A")],
                             TRUE)
    /\ rules_config \in [Tenants -> StoredRules]
    /\ rule_engine = new_rule_engine
    /\ analytics = [key \in Tenants \X Range(error_categories) |-> <<>>]
    /\ run = [r \in Slots |-> IdleRun]
    /\ lifecycle = [runs |-> 0, claim_uploads |-> MaxClaimUploads,
                    rule_uploads |-> MaxRuleUploads, load_failures |-> 0]

NextRuns ==
    \/ \E t \in Tenants : validate_claims(1, t)
    \/ load_tenant_rules(1)
    \/ \E parsed_technical \in BOOLEAN : load_tenant_rules_fails(1, parsed_technical)
    \/ fetch_pending_claims(1)
    \/ process_claim(1)
    \/ \E llm_result \in Opinions : llm_returns(1, llm_result)
    \/ update_claims_with_results(1)
    \/ \E n \in 0..MaxPending : update_claims_with_results_fails(1, n)
    \/ validate_claims_analytics(1)
    \/ validate_claims_upsert_analytics(1)
    \/ \E n \in 0..3 : validate_claims_analytics_fails(1, n)
    \/ validate_claims_returns(1)

SpecRuns == InitRuns /\ [][NextRuns]_vars

(***************************************************************************)
(* Observations of a run                                                   *)
(***************************************************************************)
\* every result the run has produced so far, in order: the finished batches'
\* (validation_results) and the current batch's (results)
run_results(r) == run[r].validation_results \o run[r].results

\* the documents a run has written: validated_at is set by the bulk update only
persisted == {k \in DOMAIN claims_master : claims_master[k].validated_at /= 0}

(***************************************************************************)
(* Properties                                                              *)
(***************************************************************************)
\* C1: every persisted result has error_type "No error" exactly when its
\* error_explanation is empty, whatever the augmentation opinion was.
\* The service breaks it: see C1_ValidClaimWithInsight.
C1_NoErrorIffNoExplanation ==
    \A k \in persisted :
        (claims_master[k].error_type = NO_ERROR)
            <=> (claims_master[k].error_explanation = <<>>)

\* C1: the state the claim excludes: a claim persisted as "No error" whose
\* error_explanation holds the insight of the opinion
C1_ValidClaimWithInsight ==
    \E k \in persisted :
        /\ claims_master[k].error_type = NO_ERROR
        /\ claims_master[k].status = VALIDATED
        /\ claims_master[k].error_explanation = <<ai_insight(<<"o", "k">>)>>

\* C2: in every result, of the normal and of the exception path, and in
\* every persisted claim, status is "Validated" exactly when error_type is
\* "No error" and "Not validated" exactly when error_type is one of
\* "Technical error", "Medical error", "Both"; no result is "Pending".
C2_StatusMatchesErrorType ==
    LET consistent(res) ==
            /\ res.status \in {VALIDATED, NOT_VALIDATED}
            /\ (res.status = VALIDATED) <=> (res.error_type = NO_ERROR)
            /\ (res.status = NOT_VALIDATED)
                   <=> (res.error_type \in {TECHNICAL_ERROR, MEDICAL_ERROR, BOTH})
    IN  /\ \A r \in Slots : \A k \in DOMAIN run_results(r) :
               consistent(run_results(r)[k])
        /\ \A k \in persisted : consistent(claims_master[k])

\* C2: a run has persisted a valid claim, a claim with findings and a claim
\* whose record could not be built
C2_AllPathsPersisted ==
    /\ run[1].pc = "analytics"
    /\ run[1].written /= <<>>
    /\ \E k \in persisted : claims_master[k].status = VALIDATED
    /\ \E k \in persisted : claims_master[k].error_type = BOTH
    /\ \E k \in persisted :
           /\ claims_master[k].error_explanation /= <<>>
           /\ claims_master[k].error_explanation[1].kind = "processing_error"

\* C3: the error_type of a result is a function of its two finding lists:
\* "Both" when both are non-empty, "Technical error" when only the technical
\* list is, "Medical error" when only the medical list is, else "No error".
C3_ErrorTypeFromLists ==
    \A r \in Slots : \A k \in DOMAIN run_results(r) :
        LET res == run_results(r)[k]
            technical == res.technical_errors /= <<>>
            medical == res.medical_errors /= <<>>
        IN  res.error_type =
                CASE technical /\ medical -> BOTH
                  [] technical /\ ~medical -> TECHNICAL_ERROR
                  [] ~technical /\ medical -> MEDICAL_ERROR
                  [] OTHER -> NO_ERROR

\* C3: the engine has classified claims of two rows of the table in one run,
\* under technical and medical rules
C3_TwoRowsOfTheTable ==
    /\ rule_engine.technical_rules /= <<>>
    /\ rule_engine.medical_rules /= <<>>
    /\ \E k \in DOMAIN run_results(1) :
           /\ run_results(1)[k].error_type = MEDICAL_ERROR
           /\ run_results(1)[k].technical_errors = <<>>
    /\ \E k \in DOMAIN run_results(1) :
           /\ run_results(1)[k].error_type = TECHNICAL_ERROR
           /\ run_results(1)[k].medical_errors = <<>>
           /\ Len(run_results(1)[k].technical_errors) = 3

\* C4 as the specification states it: when the opinion of a claim has
\* has_additional_errors true and additional errors, the result holds every
\* additional error and its status and error_type are recomputed from the
\* merged lists, as _combine_validation_results would.
C4_AdditionalErrorsMerged ==
    \A k \in DOMAIN run_results(1) :
        LET res == run_results(1)[k]
            llm == run[1].processed[k].llm
        IN  (/\ llm /= <<>>
             /\ llm[1].has_additional_errors
             /\ llm[1].additional_errors /= <<>>)
            => /\ \A n \in DOMAIN llm[1].additional_errors :
                      InSeq(llm_error(llm[1].additional_errors[n]),
                            res.error_explanation)
               /\ res.status = NOT_VALIDATED
               /\ res.error_type /= NO_ERROR

\* C4, amended: the additional errors of an opinion are not merged.  Whatever
\* the opinion, the status, error_type, technical_errors and medical_errors
\* of a result are those of the deterministic evaluation, no additional error
\* is in error_explanation, and error_explanation is the deterministic
\* findings followed by at most the insight; a claim without deterministic
\* findings stays "Validated" / "No error".
C4_AdditionalErrorsIgnored ==
    \A k \in DOMAIN run_results(1) :
        LET res == run_results(1)[k]
            llm == run[1].processed[k].llm
            findings == res.technical_errors \o res.medical_errors
        IN  (/\ llm /= <<>>
             /\ llm[1].has_additional_errors
             /\ llm[1].additional_errors /= <<>>)
            => /\ \A n \in DOMAIN res.error_explanation :
                      res.error_explanation[n].kind /= "llm_additional"
               /\ \A n \in DOMAIN findings : findings[n].kind /= "llm_additional"
               /\ res.status = (IF findings = <<>> THEN VALIDATED ELSE NOT_VALIDATED)
               /\ (res.error_type = NO_ERROR) <=> (findings = <<>>)
               /\ \/ res.error_explanation = findings
                  \/ /\ llm[1].enhanced_explanation /= <<>>
                     /\ res.error_explanation =
                            Append(findings, ai_insight(llm[1].enhanced_explanation))

\* C4: a claim without deterministic findings, evaluated under both rule
\* families with an opinion that reports additional errors, was persisted as
\* "Validated" with an empty error_explanation
C4_ValidDespiteAdditionalErrors ==
    /\ run[1].pc = "analytics"
    /\ \E k \in DOMAIN run[1].written :
           /\ run[1].processed[k].llm = <<llm_additional>>
           /\ run[1].rules_config[1].technical_rules /= <<>>
           /\ run[1].rules_config[1].medical_rules /= <<>>
           /\ run[1].written[k] /= 0
           /\ claims_master[run[1].written[k]].status = VALIDATED
           /\ claims_master[run[1].written[k]].error_type = NO_ERROR
           /\ claims_master[run[1].written[k]].error_explanation = <<>>

\* C5: the status, error_type, technical_errors and medical_errors of a
\* result are the same for every opinion with has_additional_errors false:
\* they are those the evaluation gives without any opinion.  A non-empty
\* enhanced_explanation adds one labelled entry at the end of
\* error_explanation and nothing else.
C5_OpinionWithoutErrorsIsInformational ==
    \A k \in DOMAIN run_results(1) :
        LET res == run_results(1)[k]
            llm == run[1].processed[k].llm
            neutral == validate_claim(rule_engine,
                           _dict_to_claim_record(run[1].processed[k].claim_data))
        IN  (llm /= <<>> /\ ~llm[1].has_additional_errors)
            => /\ res.status = neutral.status
               /\ res.error_type = neutral.error_type
               /\ res.technical_errors = neutral.technical_errors
               /\ res.medical_errors = neutral.medical_errors
               /\ res.recommended_action = neutral.recommended_action
               /\ res.error_explanation =
                      IF llm[1].enhanced_explanation = <<>>
                      THEN neutral.error_explanation
                      ELSE Append(neutral.error_explanation,
                                  ai_insight(llm[1].enhanced_explanation))

\* C5: one run has evaluated a claim with findings under the neutral opinion
\* and a claim under an opinion that carries an insight only
C5_NeutralAndInsight ==
    /\ \E k \in DOMAIN run_results(1) :
           /\ run[1].processed[k].llm = <<_default_response>>
           /\ run_results(1)[k].error_type = BOTH
    /\ \E k \in DOMAIN run_results(1) :
           /\ run[1].processed[k].llm = <<llm_insight>>
           /\ Len(run_results(1)[k].error_explanation) = 1

(***************************************************************************)
(* Runs over long files: a tenant has uploaded its rules and one file of   *)
(* up to MaxPending rows before the first run                              *)
(***************************************************************************)
BatchOpinions == {_default_response, llm_insight}

InitBatch ==
    /\ analytics_response = <<>>
    /\ analytics_request = <<>>
    /\ upload = <<>>
    /\ data_management = IdleDataManagement
    /\ \E n \in 0..MaxPending :
           claims_master =
               insert_claims(<<>>,
                             [k \in 1..n |-> upload_claim_document(long_file(n)[k], "A")],
                             TRUE)
    /\ rules_config =
           [t \in Tenants |->
               IF t = "A"
               THEN upsert_rules_config(<<>>, <<"Approval is required above AED 250">>,
                                        <<"Approval is required above AED 250">>)
               ELSE <<>>]
    /\ rule_engine = new_rule_engine
    /\ analytics = [key \in Tenants \X Range(error_categories) |-> <<>>]
    /\ run = [r \in Slots |-> IdleRun]
    /\ lifecycle = [runs |-> 0, claim_uploads |-> MaxClaimUploads,
                    rule_uploads |-> MaxRuleUploads, load_failures |-> 0]

NextBatch ==
    \/ \E t \in Tenants : validate_claims(1, t)
    \/ load_tenant_rules(1)
    \/ fetch_pending_claims(1)
    \/ process_claim(1)
    \/ \E llm_result \in BatchOpinions : llm_returns(1, llm_result)
    \/ update_claims_with_results(1)
    \/ \E n \in {0, batch_size} : update_claims_with_results_fails(1, n)
    \/ validate_claims_analytics(1)
    \/ validate_claims_upsert_analytics(1)
    \/ \E n \in 0..3 : validate_claims_analytics_fails(1, n)
    \/ validate_claims_returns(1)

SpecBatch == InitBatch /\ [][NextBatch]_vars

\* C6: for any number of pending claims, a multiple of the batch size or
\* not, the run produces exactly one result per fetched claim, in the order
\* fetched, none skipped and none twice, and its bulk update has exactly one
\* operation per fetched claim.
C6_OneResultPerFetchedClaim ==
    LET frame == run[1]
        results == run_results(1)
    IN  /\ Len(results) <= Len(frame.pending_claims)
        /\ \A k \in DOMAIN results :
               results[k].unique_id = frame.pending_claims[k].unique_id
        /\ frame.pc \in {"batch", "llm"} => Len(results) = frame.i + frame.j - 1
        /\ frame.pc = "write" => Len(results) = Len(frame.pending_claims)
        /\ (frame.pc = "analytics" /\ frame.pending_claims /= <<>>)
           => /\ Len(frame.written) = Len(frame.pending_claims)
              /\ \A k \in DOMAIN frame.written :
                     /\ frame.written[k] /= 0
                     /\ frame.fetched_from[1][frame.written[k]]
                            = frame.pending_claims[k]
              /\ \A k, m \in DOMAIN frame.written :
                     frame.written[k] = frame.written[m] => k = m

\* C6: a run over a number of claims that is not a multiple of the batch
\* size has written them all, the last one from the second batch
C6_TwoBatchesWritten ==
    /\ run[1].pc = "analytics"
    /\ Len(run[1].pending_claims) = batch_size + 2
    /\ Len(run[1].written) = batch_size + 2
    /\ run[1].i = 2 * batch_size
    /\ claims_master[batch_size + 1].status = VALIDATED
    /\ claims_master[batch_size + 2].status = NOT_VALIDATED

\* C7: when building the record of one claim raises, that claim's result is
\* "Not validated" / "Technical error" with the exception's message as its
\* only finding; every other claim of the run has the result its own
\* evaluation gives; the run reaches the bulk update with one result per
\* claim and returns its summary: no error response comes from a claim (one
\* comes from a bulk update or an analytics computation that raises).
C7_FailedClaimIsolated ==
    LET frame == run[1]
        results == run_results(1)
    IN  /\ \A k \in DOMAIN results :
               LET claim_data == frame.processed[k].claim_data
                   raised == claim_record_errors(claim_data)
                   res == results[k]
               IN  IF raised /= <<>>
                   THEN /\ res.unique_id = claim_data.unique_id
                        /\ res.status = NOT_VALIDATED
                        /\ res.error_type = TECHNICAL_ERROR
                        /\ Len(res.error_explanation) = 1
                        /\ res.error_explanation[1].kind = "processing_error"
                        /\ res.error_explanation[1].text = raised
                        /\ res.technical_errors = res.error_explanation
                        /\ res.medical_errors = <<>>
                   ELSE /\ frame.processed[k].llm /= <<>>
                        /\ res = augment_result(
                                     validate_claim(rule_engine,
                                                    _dict_to_claim_record(claim_data)),
                                     frame.processed[k].llm[1])
        /\ frame.pc = "write" => Len(results) = Len(frame.pending_claims)
        /\ (frame.response /= <<>> /\ frame.response[1].status_code /= 200)
           => \/ frame.processed = <<>>
              \/ /\ frame.response[1].detail = "bulk write failed"
                 /\ Len(frame.validation_results) = Len(frame.pending_claims)
              \/ /\ frame.response[1].detail = "Validation failed"
                 /\ Len(frame.written) = Len(frame.pending_claims)
        /\ (frame.pc = "analytics" /\ frame.pending_claims /= <<>>)
           => /\ frame.response[1].status_code = 200
              /\ frame.response[1].total_claims = Len(frame.pending_claims)

\* C7: a run whose second claim could not be built has persisted the first
\* claim as valid, the second with the processing error and the third with
\* its findings, and holds its summary
C7_RunCompletedAroundFailedClaim ==
    /\ run[1].pc = "analytics"
    /\ Len(run[1].written) = 3
    /\ claims_master[run[1].written[1]].status = VALIDATED
    /\ claims_master[run[1].written[2]].error_type = TECHNICAL_ERROR
    /\ claims_master[run[1].written[2]].error_explanation[1].kind = "processing_error"
    /\ claims_master[run[1].written[3]].error_type = BOTH
    /\ run[1].response[1].total_claims = 3
    /\ run[1].response[1].validated_claims = 1

\* C8: a run only takes claims out of "Pending".  After its bulk update
\* succeeded every claim that was Pending at the fetch is "Validated" or
\* "Not validated" and was written exactly once; the run writes no claim
\* that was not Pending at the fetch; and no step ever sets a claim back to
\* "Pending", removes a claim or changes a claim's key.
C8_RunOnlyTakesClaimsOutOfPending ==
    /\ [](LET frame == run[1] IN
          frame.fetched_from /= <<>> =>
          LET fetched == frame.fetched_from[1]
              pending == pending_positions(fetched, frame.tenant_id)
          IN  /\ \A k \in DOMAIN frame.written : frame.written[k] \in pending
              /\ \A k, m \in DOMAIN frame.written :
                     frame.written[k] = frame.written[m] => k = m
              /\ \A k \in DOMAIN fetched :
                     k \notin pending => claims_master[k] = fetched[k]
              /\ (frame.pc = "analytics" /\ frame.pending_claims /= <<>>)
                 => /\ {frame.written[k] : k \in DOMAIN frame.written} = pending
                    /\ \A k \in pending :
                           /\ claims_master[k].status \in {VALIDATED, NOT_VALIDATED}
                           /\ claims_master[k].validated_at = frame.started)
    /\ [][\A k \in DOMAIN claims_master :
              /\ k \in DOMAIN claims_master'
              /\ claims_master'[k].unique_id = claims_master[k].unique_id
              /\ claims_master'[k].tenant_id = claims_master[k].tenant_id
              /\ claims_master[k].status /= PENDING
                     => claims_master'[k].status /= PENDING]_vars

\* C8: a run has written the claims that were Pending at its fetch while a
\* claim validated by an earlier run was in the collection, and left it as
\* it was
C8_SecondRunLeavesValidatedClaim ==
    /\ run[1].pc = "analytics"
    /\ run[1].written /= <<>>
    /\ \E k \in DOMAIN run[1].fetched_from[1] :
           /\ run[1].fetched_from[1][k].status /= PENDING
           /\ run[1].fetched_from[1][k].tenant_id = run[1].tenant_id
           /\ claims_master[k] = run[1].fetched_from[1][k]
           /\ claims_master[k].validated_at /= run[1].started

\* C9: in any sequence of runs on the same service instance, the rule
\* families applied to a claim are exactly those of the run's own rules
\* document: its findings are those of an engine loaded with that document
\* alone, whatever an earlier run loaded.  Stated for the histories in which
\* no load of rules has failed.
\* The service breaks it: see C9_TechnicalFindingsWithoutTechnicalRules.
C9_OnlyOwnRuleFamilies ==
    \A k \in DOMAIN run_results(1) :
        (lifecycle.load_failures = 0 /\ run[1].processed[k].llm /= <<>>) =>
        LET own == _load_tenant_rules(new_rule_engine, run[1].rules_config[1])
            expected == validate_claim(own,
                            _dict_to_claim_record(run[1].processed[k].claim_data))
        IN  /\ run_results(1)[k].technical_errors = expected.technical_errors
            /\ run_results(1)[k].medical_errors = expected.medical_errors

\* C9: the state the claim excludes: a run whose rules document has no
\* technical rules has given a claim technical findings
C9_TechnicalFindingsWithoutTechnicalRules ==
    /\ lifecycle.load_failures = 0
    /\ run[1].rules_config /= <<>>
    /\ run[1].rules_config[1].technical_rules = <<>>
    /\ \E k \in DOMAIN run_results(1) :
           /\ run[1].processed[k].llm /= <<>>
           /\ run_results(1)[k].technical_errors /= <<>>

\* C10: a run of a tenant without a rules document ends with an error
\* response, and so does a run whose rules fail to load; such a run has
\* fetched no claim, evaluated none and written none, and while a run is
\* before its fetch only an upload changes the claims collection.
C10_NoRulesNoClaimTouched ==
    /\ [](LET frame == run[1] IN
          /\ (frame.pc /= "idle" /\ frame.rules_config = <<>>)
             => /\ frame.pc = "responded"
                /\ frame.response /= <<>>
                /\ frame.response[1].status_code = 404
          /\ (/\ frame.response /= <<>>
              /\ frame.response[1].detail \in
                     {"No rules configuration found for tenant",
                      "Failed to load tenant rules"})
             => /\ frame.pc = "responded"
                /\ frame.response[1].status_code \in {404, 500}
                /\ frame.fetched_from = <<>>
                /\ frame.pending_claims = <<>>
                /\ frame.processed = <<>>
                /\ frame.validation_results = <<>>
                /\ frame.written = <<>>)
    /\ [][(/\ run[1].pc \in {"idle", "have_rules"}
           /\ lifecycle'.claim_uploads = lifecycle.claim_uploads
           /\ upload' = upload)
          => claims_master' = claims_master]_vars

\* C10: a tenant with Pending claims and no rules document has been answered
\* 404, its claims still Pending
C10_NotFoundWithPendingClaims ==
    /\ run[1].pc = "responded"
    /\ run[1].response = <<error_response(404, "No rules configuration found for tenant")>>
    /\ rules_config[run[1].tenant_id] = <<>>
    /\ pending_positions(claims_master, run[1].tenant_id) /= {}
    /\ persisted = {}
\* C11: whenever a run returns a summary, total = validated + not_validated
\* = no_error + technical_error_only + medical_error_only + both_errors,
\* validated = no_error, and each count is the number of claims to which this
\* run's bulk update wrote that status or error type, also when claims took
\* the processing-error path; the summary of a run without pending claims is
\* all zero and that run wrote nothing; a run whose bulk write failed
\* returns no summary.
C11_SummaryMatchesWrites ==
    LET frame == run[1]
        wrote(field, value) ==
            Cardinality({k \in DOMAIN claims_master :
                             /\ claims_master[k].validated_at = frame.started
                             /\ claims_master[k].tenant_id = frame.tenant_id
                             /\ claims_master[k][field] = value})
        wrote_any ==
            Cardinality({k \in DOMAIN claims_master :
                             claims_master[k].validated_at = frame.started})
    IN  frame.response /= <<>> =>
        LET response == frame.response[1] IN
        /\ response.status_code = 200 <=> "summary" \in DOMAIN response
        /\ (response.status_code = 200 /\ response.detail = "")
           => LET summary == response.summary IN
              /\ summary.total = summary.validated + summary.not_validated
              /\ summary.total = summary.no_error + summary.technical_error_only
                                 + summary.medical_error_only + summary.both_errors
              /\ summary.validated = summary.no_error
              /\ summary.total_with_errors = summary.not_validated
              /\ response.total_claims = summary.total
              /\ response.validated_claims = summary.validated
              /\ response.error_claims = summary.not_validated
              /\ summary.total = wrote_any
              /\ summary.total = Len(frame.pending_claims)
              /\ summary.validated = wrote("status", VALIDATED)
              /\ summary.not_validated = wrote("status", NOT_VALIDATED)
              /\ summary.no_error = wrote("error_type", NO_ERROR)
              /\ summary.technical_error_only = wrote("error_type", TECHNICAL_ERROR)
              /\ summary.medical_error_only = wrote("error_type", MEDICAL_ERROR)
              /\ summary.both_errors = wrote("error_type", BOTH)
        /\ (response.status_code = 200 /\ response.detail /= "")
           => /\ response.total_claims = 0
              /\ response.validated_claims = 0
              /\ response.error_claims = 0
              /\ \A key \in DOMAIN response.summary : response.summary[key] = 0
              /\ wrote_any = 0
        /\ response.status_code /= 200 => frame.pc = "responded"

\* C11: a run has returned the summary of three claims, one valid, one on
\* the processing-error path and one with both kinds of findings, and the
\* collection holds exactly those writes
C11_SummaryWithProcessingError ==
    /\ run[1].pc = "responded"
    /\ run[1].response /= <<>>
    /\ run[1].response[1].status_code = 200
    /\ run[1].response[1].detail = ""
    /\ run[1].response[1].summary.total = 3
    /\ run[1].response[1].summary.validated = 1
    /\ run[1].response[1].summary.technical_error_only = 1
    /\ run[1].response[1].summary.both_errors = 1
    /\ \E k \in persisted :
           /\ claims_master[k].validated_at = run[1].started
           /\ claims_master[k].error_explanation /= <<>>
           /\ claims_master[k].error_explanation[1].kind = "processing_error"
(***************************************************************************)
(* Runs alone, which may be cancelled or fail at the fetch                 *)
(***************************************************************************)
NextCancel ==
    \/ \E t \in Tenants : validate_claims(1, t)
    \/ load_tenant_rules(1)
    \/ \E parsed_technical \in BOOLEAN : load_tenant_rules_fails(1, parsed_technical)
    \/ fetch_pending_claims(1)
    \/ fetch_pending_claims_fails(1)
    \/ validate_claims_cancelled(1)
    \/ process_claim(1)
    \/ \E llm_result \in BatchOpinions : llm_returns(1, llm_result)
    \/ update_claims_with_results(1)
    \/ \E n \in 0..MaxPending : update_claims_with_results_fails(1, n)
    \/ validate_claims_analytics(1)
    \/ validate_claims_upsert_analytics(1)
    \/ \E n \in 0..3 : validate_claims_analytics_fails(1, n)
    \/ validate_claims_returns(1)

SpecCancel == InitRuns /\ [][NextCancel]_vars

\* C12: within one run no claim document is written until every fetched
\* claim of every batch has been evaluated, and all results are written by
\* one bulk update: a step changes the claims collection only when the run
\* is at its bulk update with one result per fetched claim, and that step
\* ends the run's writing.  While a run is before that update, and after it
\* was cancelled or failed before it, the collection is as it was fetched,
\* no document carries the run's stamp and every claim it fetched is still
\* Pending.
C12_NothingWrittenBeforeTheBulkUpdate ==
    /\ [](LET frame == run[1]
              before_update ==
                  \/ frame.pc \in {"have_rules", "rules_loaded", "batch", "llm", "write"}
                  \/ /\ frame.pc = "responded"
                     /\ \/ frame.response = <<>>
                        \/ frame.response[1].detail \in
                               {"get_pending_claims failed",
                                "Failed to load tenant rules"}
          IN  before_update
              => /\ \A k \in DOMAIN claims_master :
                        claims_master[k].validated_at /= frame.started
                 /\ frame.written = <<>>
                 /\ frame.fetched_from /= <<>>
                    => /\ claims_master = frame.fetched_from[1]
                       /\ get_pending_claims(claims_master, frame.tenant_id)
                              = frame.pending_claims)
    /\ [][claims_master' /= claims_master
          => /\ run[1].pc = "write"
             /\ Len(run[1].validation_results) = Len(run[1].pending_claims)
             /\ Len(run[1].processed) = Len(run[1].pending_claims)
             /\ run'[1].pc \in {"analytics", "responded"}
             /\ \E n \in 1..Len(run[1].validation_results) :
                    claims_master' =
                        bulk_write(claims_master, run[1].validation_results,
                                   run[1].tenant_id, run[1].started, n)]_vars

\* C12: a run was cancelled while it waited for the opinion of its third
\* claim: two claims are evaluated, nothing is written and the three claims
\* are still Pending
C12_CancelledAfterTwoClaims ==
    /\ run[1].pc = "responded"
    /\ run[1].response = <<>>
    /\ Len(run[1].pending_claims) = 3
    /\ Len(run[1].processed) = 2
    /\ run[1].written = <<>>
    /\ claims_master = run[1].fetched_from[1]
    /\ Cardinality(pending_positions(claims_master, run[1].tenant_id)) = 3
(***************************************************************************)
(* Runs alone over the claims of two tenants: each tenant has uploaded     *)
(* both rule families and one claim file, tenant "A" first                 *)
(***************************************************************************)
InitTenants ==
    /\ analytics_response = <<>>
    /\ analytics_request = <<>>
    /\ upload = <<>>
    /\ data_management = IdleDataManagement
    /\ \E file_a \in ClaimFiles, file_b \in ClaimFiles :
           claims_master =
               insert_claims(
                   insert_claims(<<>>,
                       [k \in DOMAIN file_a |-> upload_claim_document(file_a[k], "A")],
                       TRUE),
                   [k \in DOMAIN file_b |-> upload_claim_document(file_b[k], "B")],
                   TRUE)
    /\ rules_config =
           [t \in Tenants |->
               upsert_rules_config(<<>>, <<"Approval is required above AED 250">>,
                                   <<"Approval is required above AED 250">>)]
    /\ rule_engine = new_rule_engine
    /\ analytics = [key \in Tenants \X Range(error_categories) |-> <<>>]
    /\ run = [r \in Slots |-> IdleRun]
    /\ lifecycle = [runs |-> 0, claim_uploads |-> MaxClaimUploads,
                    rule_uploads |-> MaxRuleUploads, load_failures |-> 0]

NextTenants ==
    \/ \E t \in Tenants : validate_claims(1, t)
    \/ load_tenant_rules(1)
    \/ fetch_pending_claims(1)
    \/ process_claim(1)
    \/ \E llm_result \in BatchOpinions : llm_returns(1, llm_result)
    \/ update_claims_with_results(1)
    \/ \E n \in 0..MaxPending : update_claims_with_results_fails(1, n)
    \/ validate_claims_analytics(1)
    \/ validate_claims_upsert_analytics(1)
    \/ \E n \in 0..3 : validate_claims_analytics_fails(1, n)
    \/ validate_claims_returns(1)

SpecTenants == InitTenants /\ [][NextTenants]_vars

\* C13: the bulk update of a run for tenant T changes only documents of
\* tenant T whose unique_id is that of a result of the run, sets only status,
\* error_type, error_explanation, recommended_action and validated_at, and
\* inserts no document: the claims of the other tenant, the number and order
\* of the documents and every other field of every document stay as they
\* were.
C13_BulkUpdateFrame ==
    [][/\ Len(claims_master') = Len(claims_master)
       /\ \A k \in DOMAIN claims_master :
              /\ \A field \in DOMAIN claims_master[k] \
                        {"status", "error_type", "error_explanation",
                         "recommended_action", "validated_at"} :
                     claims_master'[k][field] = claims_master[k][field]
              /\ claims_master'[k] /= claims_master[k]
                 => /\ run[1].pc = "write"
                    /\ claims_master[k].tenant_id = run[1].tenant_id
                    /\ \E n \in DOMAIN run[1].validation_results :
                           LET result == run[1].validation_results[n] IN
                           /\ result.unique_id = claims_master[k].unique_id
                           /\ claims_master'[k].status = result.status
                           /\ claims_master'[k].error_type = result.error_type
                           /\ claims_master'[k].error_explanation
                                  = result.error_explanation
                           /\ claims_master'[k].recommended_action
                                  = result.recommended_action
                           /\ claims_master'[k].validated_at = run[1].started]_vars

\* C13: tenant "B" has been validated while tenant "A" holds a claim with
\* the same unique_id: B's document carries the result, with its paid amount
\* and approval number as fetched, and A's document is untouched
C13_OtherTenantsClaimUntouched ==
    /\ run[1].pc = "analytics"
    /\ run[1].tenant_id = "B"
    /\ run[1].written /= <<>>
    /\ \E a, b \in DOMAIN claims_master :
           /\ claims_master[a].tenant_id = "A"
           /\ claims_master[b].tenant_id = "B"
           /\ claims_master[a].unique_id = claims_master[b].unique_id
           /\ claims_master[a] = run[1].fetched_from[1][a]
           /\ claims_master[a].status = PENDING
           /\ claims_master[b].status = NOT_VALIDATED
           /\ claims_master[b].validated_at = run[1].started
           /\ claims_master[b].paid_amount_aed = run[1].fetched_from[1][b].paid_amount_aed
           /\ claims_master[b].approval_number = run[1].fetched_from[1][b].approval_number
\* C14: when a run for a tenant directly follows a run for the same tenant
\* that wrote every claim of the tenant, with the claims and the rules
\* document unchanged in between, the second run leaves every claim of the
\* tenant with the status, error_type and error_explanation the first run
\* gave it: it fetches no claim, evaluates none and returns the zero summary
\* (the handler answers with it unless the analytics computation raises).
C14_SecondRunChangesNothing ==
    LET frame == run[1] IN
    (/\ frame.fetched_from /= <<>>
     /\ frame.started > 1
     /\ \E k \in DOMAIN frame.fetched_from[1] :
            frame.fetched_from[1][k].tenant_id = frame.tenant_id
     /\ \A k \in DOMAIN frame.fetched_from[1] :
            frame.fetched_from[1][k].tenant_id = frame.tenant_id
                => frame.fetched_from[1][k].validated_at = frame.started - 1)
    => /\ frame.pending_claims = <<>>
       /\ frame.processed = <<>>
       /\ frame.written = <<>>
       /\ frame.response \in {<<no_pending_summary>>,
                              <<error_response(500, "Validation failed")>>}
       /\ \A k \in DOMAIN claims_master :
              claims_master[k].tenant_id = frame.tenant_id
              => /\ claims_master[k].status = frame.fetched_from[1][k].status
                 /\ claims_master[k].error_type = frame.fetched_from[1][k].error_type
                 /\ claims_master[k].error_explanation
                        = frame.fetched_from[1][k].error_explanation
                 /\ claims_master[k].validated_at = frame.started - 1

\* C14: the second of two runs for a tenant has ended; the claims are as
\* the first run wrote them, one valid with an insight, one not valid
C14_SecondRunEnded ==
    /\ run[1].pc = "responded"
    /\ run[1].started = 2
    /\ run[1].fetched_from /= <<>>
    /\ run[1].response = <<no_pending_summary>>
    /\ \A k \in DOMAIN claims_master :
           /\ claims_master[k].tenant_id = run[1].tenant_id
           /\ claims_master[k].validated_at = 1
    /\ \E k \in DOMAIN claims_master :
           /\ claims_master[k].status = VALIDATED
           /\ claims_master[k].error_explanation /= <<>>
    /\ \E k \in DOMAIN claims_master : claims_master[k].status = NOT_VALIDATED
(***************************************************************************)
(* Runs alone, the opinion of each claim being what evaluate_claim makes   *)
(* of the provider's answers                                               *)
(***************************************************************************)
NextAdapter ==
    \/ \E t \in Tenants : validate_claims(1, t)
    \/ load_tenant_rules(1)
    \/ fetch_pending_claims(1)
    \/ process_claim(1)
    \/ \E attempts \in ProviderAttempts : llm_returns(1, evaluate_claim(attempts))
    \/ update_claims_with_results(1)
    \/ \E n \in 0..MaxPending : update_claims_with_results_fails(1, n)
    \/ validate_claims_analytics(1)
    \/ validate_claims_upsert_analytics(1)
    \/ \E n \in 0..3 : validate_claims_analytics_fails(1, n)
    \/ validate_claims_returns(1)

SpecAdapter == InitTenants /\ [][NextAdapter]_vars

\* the provider answered, and its text holds nothing json.loads accepts
unparseable(attempt) ==
    /\ ~attempt.raised
    /\ attempt.raw[1].direct = <<>>
    /\ attempt.raw[1].fenced = <<>>
    /\ attempt.raw[1].embedded = <<>>

\* C15: when the answers of the provider to a claim's evaluation are texts
\* that cannot be parsed as a JSON object (or calls that raise), the opinion
\* the adapter returns is the neutral default, and the claim's
\* error_explanation holds its deterministic findings and no entry from the
\* answer.
\* The service breaks it: see C15_RawTextPersisted.
C15_UnparseableAnswerLeavesNoTrace ==
    \A k \in DOMAIN run_results(1) : \A attempts \in ProviderAttempts :
        (/\ run[1].processed[k].llm = <<evaluate_claim(attempts)>>
         /\ \A n \in DOMAIN attempts :
                attempts[n].raised \/ unparseable(attempts[n])
         /\ \E n \in DOMAIN attempts : unparseable(attempts[n]))
        => /\ run[1].processed[k].llm = <<_default_response>>
           /\ run_results(1)[k].error_explanation =
                  run_results(1)[k].technical_errors
                  \o run_results(1)[k].medical_errors

\* C15: the state the claim excludes: the provider's first answer to a claim
\* was the text "raw"; the adapter returned at once an opinion with
\* has_additional_errors true made from that text, and the claim is
\* persisted with the text as an insight in its error_explanation
C15_RawTextPersisted ==
    /\ run[1].pc = "analytics"
    /\ \E k \in DOMAIN run[1].written :
           /\ run[1].processed[k].llm =
                  <<evaluate_claim([n \in 1..max_retries |->
                                       [raised |-> FALSE, raw |-> <<raw_text>>]])>>
           /\ run[1].processed[k].llm[1].has_additional_errors
           /\ run[1].written[k] /= 0
           /\ InSeq(ai_insight(raw_text.text),
                    claims_master[run[1].written[k]].error_explanation)
(***************************************************************************)
(* One claim through a run: the tenant has both rule families and one      *)
(* Pending claim whose fields are drawn from the sets below; the provider  *)
(* gives the neutral opinion                                               *)
(***************************************************************************)
\* unique_id with the three identifiers it is derived from
IdInputs ==
    {
      \* the identifiers of the specification's example
      [unique_id |-> <<"A", "B", "C", "D", "-", "1", "2", "3", "4", "-", "W", "X", "Y", "Z">>,
       national_id |-> <<"A", "B", "C", "D", "1", "2", "3", "4", "X", "X", "X", "X">>,
       member_id |-> <<"X", "X", "1", "2", "3", "4", "0", "0", "0", "0">>,
       facility_id |-> <<"0", "0", "0", "0", "W", "X", "Y", "Z">>],
      \* derived identifiers, every segment with a letter, a registered facility
      [unique_id |-> <<"A", "B", "C", "D", "-", "A", "2", "3", "4", "-", "D", "L", "M", "T">>,
       national_id |-> <<"A", "B", "C", "D", "1", "2", "3", "4", "X", "X", "X", "X">>,
       member_id |-> <<"X", "X", "A", "2", "3", "4", "0", "0", "0", "0">>,
       facility_id |-> <<"9", "6", "G", "U", "D", "L", "M", "T">>],
      \* the same with another first segment
      [unique_id |-> <<"A", "B", "C", "E", "-", "A", "2", "3", "4", "-", "D", "L", "M", "T">>,
       national_id |-> <<"A", "B", "C", "D", "1", "2", "3", "4", "X", "X", "X", "X">>,
       member_id |-> <<"X", "X", "A", "2", "3", "4", "0", "0", "0", "0">>,
       facility_id |-> <<"9", "6", "G", "U", "D", "L", "M", "T">>],
      \* a member_id of six characters that holds the middle segment
      [unique_id |-> <<"A", "B", "C", "D", "-", "X", "A", "2", "3", "-", "D", "L", "M", "T">>,
       national_id |-> <<"A", "B", "C", "D", "1", "2", "3", "4", "X", "X", "X", "X">>,
       member_id |-> <<"X", "A", "2", "3", "4", "X">>,
       facility_id |-> <<"9", "6", "G", "U", "D", "L", "M", "T">>],
      \* the same with another middle segment, also held by the member_id
      [unique_id |-> <<"A", "B", "C", "D", "-", "A", "2", "3", "4", "-", "D", "L", "M", "T">>,
       national_id |-> <<"A", "B", "C", "D", "1", "2", "3", "4", "X", "X", "X", "X">>,
       member_id |-> <<"X", "A", "2", "3", "4", "X">>,
       facility_id |-> <<"9", "6", "G", "U", "D", "L", "M", "T">>]
    }
ServiceInputs == {<<"S", "R", "V", "1", "0", "0", "1">>, <<"S", "R", "V", "2", "0", "0", "3">>, <<"S", "R", "V", "2", "0", "0", "8">>}
DiagnosisInputs ==
    { <<<<"E", "6", "6", ".", "9">>>>, <<<<"E", "1", "1", ".", "9">>>>, <<<<"R", "7", "3", ".", "0", "3">>, <<"E", "1", "1", ".", "9">>>>, <<<<"E", "1", "1", ".", "9">>, <<"R", "7", "3", ".", "0", "3">>>>,
      <<<<"E", "1", "1", ".", "9">>, <<"R", "7", "3", ".", "0", "3">>, <<"E", "1", "1", ".", "9">>>>, <<<<"Z", "3", "4", ".", "0">>, <<"R", "0", "7", ".", "9">>>>,
      <<<<"E", "6", "6", ".", "3">>, <<"E", "6", "6", ".", "9">>, <<"R", "5", "1">>>> }
AmountInputs == {100, paid_amount_threshold, paid_amount_threshold + 1}
ApprovalInputs ==
    { <<>>, <<"A", "P", "P", "1", "2", "3">>, <<"P", "E", "N", "D", "I", "N", "G">> }

EngineRows ==
    {[unique_id |-> ids.unique_id,
      encounter_type |-> encounter_type,
      national_id |-> ids.national_id,
      member_id |-> ids.member_id,
      facility_id |-> ids.facility_id,
      diagnosis_codes |-> diagnosis_cell(diagnosis_codes),
      service_code |-> service_code,
      paid_amount_aed |-> paid_amount_aed,
      approval_number |-> approval_number] :
         ids \in IdInputs, encounter_type \in EncounterType,
         diagnosis_codes \in DiagnosisInputs, service_code \in ServiceInputs,
         paid_amount_aed \in AmountInputs, approval_number \in ApprovalInputs}

InitEngine ==
    /\ analytics_response = <<>>
    /\ analytics_request = <<>>
    /\ upload = <<>>
    /\ data_management = IdleDataManagement
    /\ \E row \in EngineRows :
           claims_master = insert_claims(<<>>, <<upload_claim_document(row, "A")>>, TRUE)
    /\ rules_config =
           [t \in Tenants |->
               IF t = "A"
               THEN upsert_rules_config(<<>>, <<"Approval is required above AED 250">>,
                                        <<"Approval is required above AED 250">>)
               ELSE <<>>]
    /\ rule_engine = new_rule_engine
    /\ analytics = [key \in Tenants \X Range(error_categories) |-> <<>>]
    /\ run = [r \in Slots |-> IdleRun]
    /\ lifecycle = [runs |-> 0, claim_uploads |-> MaxClaimUploads,
                    rule_uploads |-> MaxRuleUploads, load_failures |-> 0]

NextEngine ==
    \/ \E t \in Tenants : validate_claims(1, t)
    \/ load_tenant_rules(1)
    \/ fetch_pending_claims(1)
    \/ process_claim(1)
    \/ llm_returns(1, _default_response)
    \/ update_claims_with_results(1)
    \/ validate_claims_analytics(1)
    \/ validate_claims_upsert_analytics(1)
    \/ validate_claims_returns(1)

SpecEngine == InitEngine /\ [][NextEngine]_vars
\* C16 as the specification states it: a claim with unique_id
\* "ABCD-1234-WXYZ", national_id "ABCD1234XXXX", member_id "XX12340000" and
\* facility_id "0000WXYZ" gets no identifier finding (its technical findings
\* are approval findings only); and for every claim whose identifier gets no
\* finding, replacing one segment of unique_id by another pattern-valid
\* segment gives exactly one finding, a mismatch of that segment.
\* The service breaks it: see C16_ExampleIdentifierRejected.
C16_ExamplePassesAndOneMismatchPerSegment ==
    \A k \in DOMAIN run_results(1) :
        LET claim_data == run[1].processed[k].claim_data
            res == run_results(1)[k]
            example == CHOOSE ids \in IdInputs :
                           ids.member_id = <<"X", "X", "1", "2", "3", "4", "0", "0", "0", "0">>
            segment_names == <<"first", "middle", "last">>
            OtherSegments == { <<"A", "B", "C", "E">>, <<"A", "2", "3", "4">>,
                               <<"X", "A", "2", "3">>, <<"W", "X", "Y", "Z">> }
        IN  /\ (/\ claim_data.unique_id = example.unique_id
                /\ claim_data.national_id = example.national_id
                /\ claim_data.member_id = example.member_id
                /\ claim_data.facility_id = example.facility_id)
               => \A n \in DOMAIN res.technical_errors :
                      res.technical_errors[n].kind = "approval_required"
            /\ (/\ claim_record_errors(claim_data) = <<>>
                /\ _validate_id_formats(_dict_to_claim_record(claim_data)) = <<>>)
               => \A i \in 1..3 : \A segment \in OtherSegments :
                      LET claim == _dict_to_claim_record(claim_data)
                          segments == str_split(claim.unique_id, "-")
                          changed == [segments EXCEPT ![i] = segment]
                          errors == _validate_id_formats(
                                        [claim EXCEPT !.unique_id =
                                            changed[1] \o <<"-">> \o changed[2]
                                            \o <<"-">> \o changed[3]])
                      IN  segment /= segments[i]
                          => /\ Len(errors) = 1
                             /\ errors[1].kind \in {"segment_mismatch", "segment_not_found"}
                             /\ errors[1].field = segment_names[i]

\* C16: the state the claim excludes: the claim with the identifiers of the
\* example, needing no approval, is persisted as "Not validated" /
\* "Technical error": its record could not be built, because the middle
\* segment "1234" holds no letter
C16_ExampleIdentifierRejected ==
    /\ run[1].pc = "analytics"
    /\ Len(run[1].written) = 1
    /\ LET doc == claims_master[run[1].written[1]] IN
       /\ doc.unique_id = <<"A", "B", "C", "D", "-", "1", "2", "3", "4", "-", "W", "X", "Y", "Z">>
       /\ doc.national_id = <<"A", "B", "C", "D", "1", "2", "3", "4", "X", "X", "X", "X">>
       /\ doc.member_id = <<"X", "X", "1", "2", "3", "4", "0", "0", "0", "0">>
       /\ doc.facility_id = <<"0", "0", "0", "0", "W", "X", "Y", "Z">>
       /\ doc.paid_amount_aed = 100
       /\ doc.service_code = <<"S", "R", "V", "2", "0", "0", "3">>
       /\ doc.status = NOT_VALIDATED
       /\ doc.error_type = TECHNICAL_ERROR
       /\ Len(doc.error_explanation) = 1
       /\ doc.error_explanation[1].kind = "processing_error"
       /\ doc.error_explanation[1].text
              = <<"unique_id segments must be uppercase alphanumeric">>
       /\ _validate_id_formats(doc) = <<>>
\* C17: for a claim without a valid approval number the technical findings
\* hold exactly one approval finding per reason: one for the service code if
\* it is flagged, one for each flagged diagnosis code on the claim, one for
\* the paid amount if it is strictly greater than the threshold, and none
\* for a paid amount equal to the threshold.  A claim with a flagged service
\* code, a paid amount over the threshold, no flagged diagnosis, an empty
\* approval number and no identifier finding has exactly two technical
\* findings.  With a valid approval number there is no approval finding.
C17_OneApprovalFindingPerReason ==
    \A k \in DOMAIN run_results(1) :
        run[1].processed[k].llm /= <<>> =>
        LET claim == _dict_to_claim_record(run[1].processed[k].claim_data)
            technical_errors == run_results(1)[k].technical_errors
            approval(field) ==
                {n \in DOMAIN technical_errors :
                     /\ technical_errors[n].kind = "approval_required"
                     /\ technical_errors[n].field = field}
            flagged_service == claim.service_code \in {<<"S", "R", "V", "1", "0", "0", "1">>, <<"S", "R", "V", "1", "0", "0", "2">>, <<"S", "R", "V", "2", "0", "0", "8">>}
            flagged_diagnoses ==
                {n \in DOMAIN claim.diagnosis_codes :
                     claim.diagnosis_codes[n] \in {<<"E", "1", "1", ".", "9">>, <<"R", "0", "7", ".", "9">>, <<"Z", "3", "4", ".", "0">>}}
            over_threshold == claim.paid_amount_aed > 250
            absent == claim.approval_number \in { <<>>, <<"P", "E", "N", "D", "I", "N", "G">> }
        IN  /\ absent
               => /\ Cardinality(approval("service")) = (IF flagged_service THEN 1 ELSE 0)
                  /\ Cardinality(approval("diagnosis")) = Cardinality(flagged_diagnoses)
                  /\ \A d \in flagged_diagnoses :
                         Cardinality({n \in approval("diagnosis") :
                                          technical_errors[n].code = claim.diagnosis_codes[d]})
                         = Cardinality({e \in flagged_diagnoses :
                                            claim.diagnosis_codes[e] = claim.diagnosis_codes[d]})
                  /\ Cardinality(approval("amount")) = (IF over_threshold THEN 1 ELSE 0)
            /\ ~absent
               => \A n \in DOMAIN technical_errors :
                      technical_errors[n].kind /= "approval_required"
            /\ (/\ flagged_service /\ over_threshold /\ flagged_diagnoses = {}
                /\ claim.approval_number = <<>>
                /\ _validate_id_formats(claim) = <<>>)
               => Len(technical_errors) = 2

\* C17: a claim with a flagged service code, a paid amount over the
\* threshold, no flagged diagnosis, no approval number and a matching
\* identifier has two technical findings, one for the service and one for
\* the amount
C17_ServiceAndAmount ==
    \E k \in DOMAIN run_results(1) :
        LET res == run_results(1)[k]
            claim_data == run[1].processed[k].claim_data
        IN  /\ run[1].processed[k].llm /= <<>>
            /\ claim_data.service_code = <<"S", "R", "V", "2", "0", "0", "8">>
            /\ claim_data.paid_amount_aed = paid_amount_threshold + 1
            /\ claim_data.diagnosis_codes = <<<<"E", "6", "6", ".", "9">>>>
            /\ claim_data.approval_number = <<>>
            /\ Len(res.technical_errors) = 2
            /\ res.technical_errors[1].field = "service"
            /\ res.technical_errors[2].field = "amount"
            /\ res.technical_errors[2].num = paid_amount_threshold + 1
\* C18 as the specification states it: every claim whose service_code is in
\* the inpatient-only list and whose encounter_type is OUTPATIENT has a
\* result with at least one medical finding and error_type "Medical error"
\* or "Both", whatever its identifiers, approval number, paid amount and
\* technical findings.
\* The service breaks it: see C18_InpatientOnlyServiceWithoutMedicalFinding.
C18_InpatientOnlyOnOutpatientIsMedical ==
    \A k \in DOMAIN run_results(1) :
        LET claim_data == run[1].processed[k].claim_data
            res == run_results(1)[k]
        IN  (/\ InSeq(claim_data.service_code, inpatient_only_services)
             /\ claim_data.encounter_type = OUTPATIENT)
            => /\ res.medical_errors /= <<>>
               /\ res.error_type \in {MEDICAL_ERROR, BOTH}

\* C18: the state the claim excludes: an OUTPATIENT claim for the
\* inpatient-only service SRV1001, with approval, whose unique_id has a
\* segment of digits, is persisted as "Technical error" with the processing
\* error as its only finding and no medical finding
C18_InpatientOnlyServiceWithoutMedicalFinding ==
    /\ run[1].pc = "analytics"
    /\ Len(run[1].written) = 1
    /\ run[1].validation_results[1].medical_errors = <<>>
    /\ LET doc == claims_master[run[1].written[1]] IN
       /\ doc.service_code = <<"S", "R", "V", "1", "0", "0", "1">>
       /\ doc.encounter_type = OUTPATIENT
       /\ doc.approval_number = <<"A", "P", "P", "1", "2", "3">>
       /\ doc.error_type = TECHNICAL_ERROR
       /\ Len(doc.error_explanation) = 1
       /\ doc.error_explanation[1].kind = "processing_error"
       /\ encounter_errors(parse_medical_rules(""), doc) /= <<>>
\* C19: for every claim the medical rules are evaluated on and every
\* configured mutually-exclusive pair, the medical findings hold exactly one
\* finding for the pair when both members are among the claim's diagnosis
\* codes and none when a member is missing; the findings for the pairs are
\* the same for every list of the same codes, in any order and with
\* repetitions.
C19_OneFindingPerExclusivePair ==
    \A k \in DOMAIN run_results(1) :
        run[1].processed[k].llm /= <<>> =>
        LET claim == _dict_to_claim_record(run[1].processed[k].claim_data)
            medical_errors == run_results(1)[k].medical_errors
            codes == Range(claim.diagnosis_codes)
            for_pair(errors, p) ==
                {n \in DOMAIN errors :
                     /\ errors[n].kind = "mutually_exclusive"
                     /\ {errors[n].code, errors[n].code2} = {p[1], p[2]}}
            pair_findings(errors) ==
                SelectSeq(errors, LAMBDA e : e.kind = "mutually_exclusive")
        IN  /\ \A i \in DOMAIN mutually_exclusive_diagnoses :
                   LET p == mutually_exclusive_diagnoses[i] IN
                   Cardinality(for_pair(medical_errors, p))
                       = (IF p[1] \in codes /\ p[2] \in codes THEN 1 ELSE 0)
            /\ \A other \in DiagnosisInputs :
                   Range(other) = codes
                   => pair_findings(
                          _validate_medical_rules(rule_engine.medical_rules[1],
                              [claim EXCEPT !.diagnosis_codes = other]))
                      = pair_findings(medical_errors)

\* C19: a claim that lists E11.9, R73.03 and E11.9 again, the members of
\* the pair (R73.03, E11.9) in reverse order and one of them twice, has
\* exactly one finding for the pair
C19_ReversedAndRepeated ==
    \E k \in DOMAIN run_results(1) :
        LET medical_errors == run_results(1)[k].medical_errors IN
        /\ run[1].processed[k].llm /= <<>>
        /\ run[1].processed[k].claim_data.diagnosis_codes = <<<<"E", "1", "1", ".", "9">>, <<"R", "7", "3", ".", "0", "3">>, <<"E", "1", "1", ".", "9">>>>
        /\ Cardinality({n \in DOMAIN medical_errors :
                            medical_errors[n].kind = "mutually_exclusive"}) = 1
        /\ \E n \in DOMAIN medical_errors :
               /\ medical_errors[n].kind = "mutually_exclusive"
               /\ medical_errors[n].code = <<"R", "7", "3", ".", "0", "3">>
               /\ medical_errors[n].code2 = <<"E", "1", "1", ".", "9">>
(***************************************************************************)
(* GET /analytics/{tenant_id} over stored claims in any mix of statuses    *)
(***************************************************************************)
\* get_analytics (main.py) up to the first await of generate_analytics: the
\* claims of the tenant are read.  When there is nothing to store,
\* generate_analytics returns without a second await and its return value is
\* the response.
get_analytics(tenant_id) ==
    /\ analytics_request = <<>>
    /\ LET all_claims == get_claims_by_tenant(claims_master, tenant_id,
                                              0, analytics_limit)
       IN  IF analytics_records(all_claims) = <<>>
           THEN /\ analytics_response' = <<generate_analytics(all_claims, tenant_id)>>
                /\ UNCHANGED analytics_request
           ELSE /\ analytics_request' =
                       <<[tenant_id |-> tenant_id, all_claims |-> all_claims]>>
                /\ UNCHANGED analytics_response
    /\ UNCHANGED <<data_management, upload, claims_master, rules_config, rule_engine, analytics,
                   run, lifecycle>>

\* the second await of generate_analytics: the records computed from the
\* claims read are upserted, and its return value is the response
get_analytics_upsert_analytics ==
    /\ analytics_request /= <<>>
    /\ LET frame == analytics_request[1] IN
           /\ analytics' = upsert_analytics(analytics, frame.all_claims, frame.tenant_id,
                                            Len(analytics_records(frame.all_claims)))
           /\ analytics_response' =
                  <<generate_analytics(frame.all_claims, frame.tenant_id)>>
    /\ analytics_request' = <<>>
    /\ UNCHANGED <<data_management, upload, claims_master, rules_config, rule_engine, run, lifecycle>>

\* generate_analytics raises in get_analytics: the read does (n = 0, no call
\* in flight yet), or the bulk write of upsert_analytics does after its
\* first n operations.  The handler answers 500.
get_analytics_fails(tenant_id, n) ==
    /\ \/ analytics_request = <<>> /\ n = 0
       \/ /\ analytics_request /= <<>>
          /\ analytics_request[1].tenant_id = tenant_id
          /\ n < Len(analytics_records(analytics_request[1].all_claims))
    /\ analytics' =
           IF analytics_request = <<>> THEN analytics
           ELSE upsert_analytics(analytics, analytics_request[1].all_claims,
                                 tenant_id, n)
    /\ analytics_response' = <<error_response(500, "Failed to get analytics")>>
    /\ analytics_request' = <<>>
    /\ UNCHANGED <<data_management, upload, claims_master, rules_config, rule_engine, run, lifecycle>>

MaxStoredClaims == 3

\* the status and error_type a stored claim can have: as uploaded, or as a
\* run wrote them
StoredOutcomes ==
    { <<PENDING, NO_ERROR>>, <<VALIDATED, NO_ERROR>>, <<NOT_VALIDATED, TECHNICAL_ERROR>>,
      <<NOT_VALIDATED, MEDICAL_ERROR>>, <<NOT_VALIDATED, BOTH>> }

\* the k-th stored claim: tenant A's claims in any outcome, tenant B's pending
stored_claim(k, tenant_id, outcome) ==
    [upload_claim_document(long_file_row(k), tenant_id)
        EXCEPT !.status = outcome[1], !.error_type = outcome[2]]

StoredClaims ==
    ({"A"} \X StoredOutcomes) \cup {<<"B", <<PENDING, NO_ERROR>>>>}

InitAnalytics ==
    /\ analytics_response = <<>>
    /\ analytics_request = <<>>
    /\ upload = <<>>
    /\ data_management = IdleDataManagement
    /\ \E n \in 0..MaxStoredClaims : \E kinds \in [1..n -> StoredClaims] :
           claims_master = [k \in 1..n |-> stored_claim(k, kinds[k][1], kinds[k][2])]
    /\ rules_config = [t \in Tenants |-> <<>>]
    /\ rule_engine = new_rule_engine
    /\ analytics = [key \in Tenants \X Range(error_categories) |-> <<>>]
    /\ run = [r \in Slots |-> IdleRun]
    /\ lifecycle = [runs |-> 0, claim_uploads |-> MaxClaimUploads,
                    rule_uploads |-> 0, load_failures |-> 0]

NextAnalytics ==
    \/ \E tenant_id \in Tenants : get_analytics(tenant_id)
    \/ get_analytics_upsert_analytics
    \/ \E tenant_id \in Tenants, n \in 0..3 : get_analytics_fails(tenant_id, n)

SpecAnalytics == InitAnalytics /\ [][NextAnalytics]_vars
\* the last analytics request was answered with analytics, not with an error
analytics_returned ==
    /\ analytics_response /= <<>>
    /\ "total_claims" \in DOMAIN analytics_response[1]

\* C20 (as stated): whatever the statuses of a tenant's claims are, the
\* analytics returned for the tenant count every claim of the tenant, the
\* per-category counts add up to total_claims, validated + not_validated is
\* total_claims, and the per-category percentages add up to 100 when there
\* is a claim; for a tenant without claims the summaries are all zero and
\* the distributions empty.
C20_CountsAndPercentagesAddUp ==
    analytics_returned =>
    LET response == analytics_response[1]
        total_claims == response.total_claims
        chart == response.claims_by_error_chart
        distribution == response.error_distribution
        count(i) == IF i \in DOMAIN chart THEN chart[i].count ELSE 0
        claim_count(i) == IF i \in DOMAIN distribution THEN distribution[i].claim_count ELSE 0
    IN  /\ total_claims
               = Len(SelectSeq(claims_master, LAMBDA doc : doc.tenant_id = response.tenant_id))
        /\ Len(chart) <= 4 /\ Len(distribution) <= 4
        /\ count(1) + count(2) + count(3) + count(4) = total_claims
        /\ claim_count(1) + claim_count(2) + claim_count(3) + claim_count(4) = total_claims
        /\ response.error_summary.technical_only + response.error_summary.medical_only
               + response.error_summary.both_errors + response.error_summary.no_errors
               = total_claims
        /\ response.validation_summary.total = total_claims
        /\ response.validation_summary.validated + response.validation_summary.not_validated
               = total_claims
        /\ total_claims > 0 => sum_percentages(chart) = <<to_float(100)>>
        /\ total_claims = 0 =>
               /\ \A key \in DOMAIN response.validation_summary :
                      response.validation_summary[key] = 0
               /\ \A key \in DOMAIN response.error_summary : response.error_summary[key] = 0
               /\ distribution = <<>> /\ chart = <<>>
               /\ response.amounts_by_error_chart = <<>>

\* C20 (amended): the same, with the percentages adding up to 100 within
\* the rounding of the float arithmetic (here 2^-40), not always to 100
\* itself.
C20_PercentagesAddUpWithinRounding ==
    analytics_returned =>
    LET response == analytics_response[1]
        total_claims == response.total_claims
        chart == response.claims_by_error_chart
        distribution == response.error_distribution
        count(i) == IF i \in DOMAIN chart THEN chart[i].count ELSE 0
        claim_count(i) == IF i \in DOMAIN distribution THEN distribution[i].claim_count ELSE 0
    IN  /\ total_claims
               = Len(SelectSeq(claims_master, LAMBDA doc : doc.tenant_id = response.tenant_id))
        /\ Len(chart) <= 4 /\ Len(distribution) <= 4
        /\ count(1) + count(2) + count(3) + count(4) = total_claims
        /\ claim_count(1) + claim_count(2) + claim_count(3) + claim_count(4) = total_claims
        /\ response.error_summary.technical_only + response.error_summary.medical_only
               + response.error_summary.both_errors + response.error_summary.no_errors
               = total_claims
        /\ response.validation_summary.total = total_claims
        /\ response.validation_summary.validated + response.validation_summary.not_validated
               = total_claims
        /\ total_claims > 0 =>
               /\ sum_percentages(chart) /= <<>>
               /\ float_close(sum_percentages(chart)[1], 100, 40)
        /\ total_claims = 0 =>
               /\ \A key \in DOMAIN response.validation_summary :
                      response.validation_summary[key] = 0
               /\ \A key \in DOMAIN response.error_summary : response.error_summary[key] = 0
               /\ distribution = <<>> /\ chart = <<>>
               /\ response.amounts_by_error_chart = <<>>

\* C20: the analytics of a tenant with three claims, one pending, one
\* validated and one with a medical error: two claims in one category and
\* one in another, 66.67 and 33.33 per cent, which add up to a float just
\* below 100
C20_ThreeClaimsTwoCategories ==
    /\ analytics_returned
    /\ LET response == analytics_response[1] IN
       /\ response.total_claims = 3
       /\ response.validation_summary.validated = 1
       /\ response.validation_summary.not_validated = 2
       /\ response.error_summary.no_errors = 2
       /\ response.error_summary.medical_only = 1
       /\ \E doc \in Range(claims_master) :
              doc.tenant_id = response.tenant_id /\ doc.status = PENDING
       /\ Len(response.claims_by_error_chart) = 2
       /\ sum_percentages(response.claims_by_error_chart) /= <<to_float(100)>>
       /\ float_close(sum_percentages(response.claims_by_error_chart)[1], 100, 40)
       /\ analytics[<<response.tenant_id, MEDICAL_ERROR>>] /= <<>>
(***************************************************************************)
(* Two calls of validate_claims in flight on the one service instance: the *)
(* call in slot 1 is for tenant "A", the call in slot 2 for tenant "B".    *)
(* Each tenant has uploaded one claim file and a rules document with one   *)
(* or both rule families; the engine is as constructed.                    *)
(***************************************************************************)
InitInterleaved ==
    /\ analytics_response = <<>>
    /\ analytics_request = <<>>
    /\ upload = <<>>
    /\ data_management = IdleDataManagement
    /\ \E file_a \in ClaimFiles, file_b \in ClaimFiles :
           claims_master =
               insert_claims(
                   insert_claims(<<>>,
                       [k \in DOMAIN file_a |-> upload_claim_document(file_a[k], "A")],
                       TRUE),
                   [k \in DOMAIN file_b |-> upload_claim_document(file_b[k], "B")],
                   TRUE)
    /\ rules_config \in [Tenants -> StoredRules \ {<<>>}]
    /\ rule_engine = new_rule_engine
    /\ analytics = [key \in Tenants \X Range(error_categories) |-> <<>>]
    /\ run = [r \in Slots |-> IdleRun]
    /\ lifecycle = [runs |-> 0, claim_uploads |-> MaxClaimUploads,
                    rule_uploads |-> MaxRuleUploads, load_failures |-> 0]

NextInterleaved ==
    \/ validate_claims(1, "A")
    \/ validate_claims(2, "B")
    \/ \E r \in Slots : load_tenant_rules(r)
    \/ \E r \in Slots : fetch_pending_claims(r)
    \/ \E r \in Slots : process_claim(r)
    \/ \E r \in Slots : llm_returns(r, _default_response)
    \/ \E r \in Slots : update_claims_with_results(r)
    \/ \E r \in Slots : validate_claims_analytics(r)
    \/ \E r \in Slots : validate_claims_upsert_analytics(r)
    \/ \E r \in Slots : validate_claims_returns(r)

SpecInterleaved == InitInterleaved /\ [][NextInterleaved]_vars

\* C21: whatever the interleaving of the two calls, every result of a call
\* carries the technical and medical findings the claim gets when the call
\* is the only one the service executes, that is, from an engine into which
\* only the call's own rules document was loaded; and no step changes the
\* engine while a call is evaluating its claims.
\* The service breaks it: see C21_FindingsFromTheOtherTenantsRules.
C21_FindingsAsIfAlone ==
    /\ [](\A r \in Slots : \A k \in DOMAIN run_results(r) :
             run[r].processed[k].llm /= <<>> =>
             LET alone == validate_claim(
                              _load_tenant_rules(new_rule_engine, run[r].rules_config[1]),
                              _dict_to_claim_record(run[r].processed[k].claim_data))
             IN  /\ run_results(r)[k].technical_errors = alone.technical_errors
                 /\ run_results(r)[k].medical_errors = alone.medical_errors)
    /\ [][\A r \in Slots :
              run[r].pc \in {"batch", "llm"} => rule_engine' = rule_engine]_vars

\* C21: tenant A has technical rules only.  Its call has evaluated its
\* claims and is about to write; the engine holds the medical rules the call
\* of tenant B loaded meanwhile, and a claim of A after the first carries a
\* medical finding, which no claim of A gets when A's call runs alone.
C21_FindingsFromTheOtherTenantsRules ==
    /\ run[1].tenant_id = "A" /\ run[2].tenant_id = "B"
    /\ run[1].rules_config /= <<>>
    /\ run[1].rules_config[1].medical_rules = <<>>
    /\ run[2].pc \in {"rules_loaded", "batch", "llm", "write"}
    /\ run[1].pc = "write"
    /\ rule_engine.medical_rules /= <<>>
    /\ \E k \in DOMAIN run_results(1) :
           /\ k > 1
           /\ run[1].processed[k].llm /= <<>>
           /\ run_results(1)[k].medical_errors /= <<>>
           /\ validate_claim(
                  _load_tenant_rules(new_rule_engine, run[1].rules_config[1]),
                  _dict_to_claim_record(run[1].processed[k].claim_data)).medical_errors = <<>>
\* C22: for every number of retries N (0 up to one more than the service's
\* max_retries) and every sequence of N provider outcomes (the call raises,
\* or it answers a text), evaluate_claim calls the provider at most N times
\* and not again after the first answer that is a JSON object with the five
\* fields of the correct types, returns that object, and returns the neutral
\* default when no answer is such an object; the opinions the runs of the
\* service used are among these values.
\* The service breaks it: see C22_OpinionMadeOfUnparseableText.
C22_FirstWellFormedAnswerElseDefault ==
    LET json_object(raw) ==
            IF raw.direct /= <<>> THEN raw.direct
            ELSE IF raw.fenced /= <<>> THEN raw.fenced ELSE raw.embedded
        correct_type ==
            [has_additional_errors |-> {"bool"},
             additional_errors |-> {"list"},
             enhanced_explanation |-> {"str"},
             recommended_action |-> {"str"},
             confidence_score |-> {"int", "float"}]
        well_formed(attempt) ==
            /\ ~attempt.raised
            /\ json_object(attempt.raw[1]) /= <<>>
            /\ json_object(attempt.raw[1])[1].type = "dict"
            /\ \A field \in DOMAIN correct_type :
                   /\ field \in DOMAIN json_object(attempt.raw[1])[1].value
                   /\ json_object(attempt.raw[1])[1].value[field].type
                          \in correct_type[field]
        expected(attempts) ==
            LET good == {n \in DOMAIN attempts : well_formed(attempts[n])} IN
            IF good = {} THEN [calls |-> Len(attempts), opinion |-> _default_response]
            ELSE LET first == CHOOSE n \in good : \A m \in good : n <= m
                     object == json_object(attempts[first].raw[1])[1].value
                 IN  [calls |-> first,
                      opinion |-> [field \in DOMAIN object |-> object[field].value]]
    IN  /\ \A N \in 0..(max_retries + 1) : \A attempts \in [1..N -> Attempts] :
               /\ chain_invocations(attempts) <= N
               /\ chain_invocations(attempts) = expected(attempts).calls
               /\ evaluate_claim(attempts) = expected(attempts).opinion
        /\ \A k \in DOMAIN run[1].processed :
               run[1].processed[k].llm /= <<>>
               => \E attempts \in ProviderAttempts :
                      run[1].processed[k].llm = <<expected(attempts).opinion>>

\* C22: the opinion a run used for a claim is neither the neutral default nor
\* an object the provider sent: the provider answered the text "raw" and
\* evaluate_claim returned, after this one call, an opinion with
\* has_additional_errors true made from the text
C22_OpinionMadeOfUnparseableText ==
    \E k \in DOMAIN run[1].processed :
        /\ run[1].processed[k].llm
               = <<evaluate_claim([n \in 1..max_retries |->
                                      [raised |-> FALSE, raw |-> <<raw_text>>]])>>
        /\ run[1].processed[k].llm /= <<_default_response>>
        /\ run[1].processed[k].llm[1].has_additional_errors
        /\ run[1].processed[k].llm[1].enhanced_explanation = raw_text.text
        /\ chain_invocations([n \in 1..max_retries |->
                                 [raised |-> FALSE, raw |-> <<raw_text>>]]) = 1
\* C23: every unique_id the format pattern of the Identifier Validator
\* accepts (three segments of four characters from A-Z and 0-9, segments of
\* digits included) is accepted by the ClaimRecord validator, so a claim with
\* such an identifier and otherwise valid fields is evaluated by the rule
\* engine and gets no processing-error result.
\* The service breaks it: see C23_DigitSegmentEndsAsProcessingError.
C23_PatternValidIdentifierReachesEvaluator ==
    \A k \in DOMAIN run[1].processed :
        LET claim_data == run[1].processed[k].claim_data IN
        pattern_core(claim_data.unique_id)
        => /\ validate_unique_id_format(claim_data.unique_id) = <<>>
           /\ (/\ claim_data.encounter_type \in EncounterType
               /\ claim_data.paid_amount_aed >= 0)
              => /\ run[1].processed[k].llm /= <<>>
                 /\ \A n \in DOMAIN run_results(1)[k].error_explanation :
                        run_results(1)[k].error_explanation[n].kind /= "processing_error"

\* C23: the run has just taken the except branch for a claim whose unique_id
\* ABCD-1234-WXYZ the pattern accepts: the ClaimRecord validator raised for
\* the segment of digits, the rule engine and the augmentation were not
\* called, and the result is the processing-error result
C23_DigitSegmentEndsAsProcessingError ==
    \E k \in DOMAIN run[1].processed :
        LET claim_data == run[1].processed[k].claim_data IN
        /\ run[1].pc = "write"
        /\ claim_data.unique_id
               = <<"A", "B", "C", "D", "-", "1", "2", "3", "4", "-", "W", "X", "Y", "Z">>
        /\ pattern_match(claim_data.unique_id)
        /\ str_isalnum(<<"1", "2", "3", "4">>) /\ ~str_isupper(<<"1", "2", "3", "4">>)
        /\ validate_unique_id_format(claim_data.unique_id)
               = <<"unique_id segments must be uppercase alphanumeric">>
        /\ run[1].processed[k].llm = <<>>
        /\ run_results(1)[k] = failed_result(claim_data, claim_record_errors(claim_data))
        /\ run_results(1)[k].medical_errors = <<>>
(***************************************************************************)
(* Runs of two tenants that uploaded the same claim file and rules         *)
(* documents with both families, each family with any of three texts       *)
(***************************************************************************)
RuleTextVariants ==
    {"", "Approval is required above AED 250", "Approval is required above AED 500"}

InitRuleTexts ==
    /\ analytics_response = <<>>
    /\ analytics_request = <<>>
    /\ upload = <<>>
    /\ data_management = IdleDataManagement
    /\ \E file \in ClaimFiles :
           claims_master =
               insert_claims(
                   insert_claims(<<>>,
                       [k \in DOMAIN file |-> upload_claim_document(file[k], "A")],
                       TRUE),
                   [k \in DOMAIN file |-> upload_claim_document(file[k], "B")],
                   TRUE)
    /\ rules_config \in
           [Tenants -> {upsert_rules_config(<<>>, <<technical_rules>>, <<medical_rules>>) :
                            technical_rules \in RuleTextVariants,
                            medical_rules \in RuleTextVariants}]
    /\ rule_engine = new_rule_engine
    /\ analytics = [key \in Tenants \X Range(error_categories) |-> <<>>]
    /\ run = [r \in Slots |-> IdleRun]
    /\ lifecycle = [runs |-> 0, claim_uploads |-> MaxClaimUploads,
                    rule_uploads |-> MaxRuleUploads, load_failures |-> 0]

SpecRuleTexts == InitRuleTexts /\ [][NextEngine]_vars

\* C24: the two parsers give the same configuration for every rule text,
\* and so the claims two runs have written that agree in every field a rule
\* reads have the same status, error_type, error_explanation and
\* recommended_action, whatever the rule texts of the two tenants are.
C24_SameFindingsWhateverTheRuleText ==
    /\ \A text \in RuleTextVariants, other \in RuleTextVariants :
           /\ parse_technical_rules(text) = parse_technical_rules(other)
           /\ parse_medical_rules(text) = parse_medical_rules(other)
    /\ \A r \in Slots : \A k \in DOMAIN run_results(r) :
           run[r].processed[k].llm /= <<>>
           => \A text \in RuleTextVariants :
                  run_results(r)[k].error_explanation
                      = validate_claim(
                            [technical_rules |-> <<parse_technical_rules(text)>>,
                             medical_rules |-> <<parse_medical_rules(text)>>],
                            _dict_to_claim_record(run[r].processed[k].claim_data)
                        ).error_explanation
    /\ \A i \in persisted, j \in persisted :
           (\A field \in {"unique_id", "encounter_type", "national_id", "member_id",
                          "facility_id", "diagnosis_codes", "service_code",
                          "paid_amount_aed", "approval_number"} :
                claims_master[i][field] = claims_master[j][field])
           => \A field \in {"status", "error_type", "error_explanation",
                            "recommended_action"} :
                  claims_master[i][field] = claims_master[j][field]

\* C24: the runs of both tenants are written; the tenants' rule texts differ
\* in both families, one naming AED 500 as the threshold; the claim paid AED
\* 300 is stored for both with the same findings, the threshold finding of
\* the built-in AED 250 among them
C24_DifferentTextsSameFindings ==
    /\ rules_config["A"][1].technical_rules = <<"Approval is required above AED 250">>
    /\ rules_config["B"][1].technical_rules = <<"Approval is required above AED 500">>
    /\ rules_config["A"][1].medical_rules /= rules_config["B"][1].medical_rules
    /\ \E i \in persisted, j \in persisted :
           /\ claims_master[i].tenant_id = "A" /\ claims_master[j].tenant_id = "B"
           /\ claims_master[i].unique_id = claims_master[j].unique_id
           /\ claims_master[i].paid_amount_aed = 300
           /\ claims_master[i].error_explanation = claims_master[j].error_explanation
           /\ \E n \in DOMAIN claims_master[j].error_explanation :
                  claims_master[j].error_explanation[n].kind = "approval_required"
(***************************************************************************)
(* Runs over one claim uploaded from a file that gives its unique_id       *)
(* hyphenated, as 12 contiguous characters, in lower case, or padded       *)
(***************************************************************************)
FileIdForms == {"hyphenated", "contiguous", "lower", "padded"}

\* the unique_id cell of the file for an identifier and a form
file_unique_id(unique_id, form) ==
    LET contiguous == str_remove(unique_id, "-") IN
    CASE form = "hyphenated" -> unique_id
      [] form = "contiguous" -> contiguous
      [] form = "lower" -> str_lower(contiguous)
      [] form = "padded" -> <<" ">> \o contiguous \o <<"\n">>

\* the row of the file for the identifiers and the form of the unique_id
stored_row(ids, form, encounter_type, paid_amount_aed) ==
    [unique_id |-> file_unique_id(ids.unique_id, form),
     encounter_type |-> encounter_type,
     national_id |-> ids.national_id,
     member_id |-> ids.member_id,
     facility_id |-> ids.facility_id,
     diagnosis_codes |-> diagnosis_cell(<<<<"R", "5", "1">>>>),
     service_code |-> <<"S", "R", "V", "2", "0", "0", "3">>,
     paid_amount_aed |-> paid_amount_aed,
     approval_number |-> <<>>]

InitStored ==
    /\ analytics_response = <<>>
    /\ analytics_request = <<>>
    /\ upload = <<>>
    /\ data_management = IdleDataManagement
    /\ \E ids \in IdInputs, encounter_type \in EncounterType,
          paid_amount_aed \in AmountInputs, form \in FileIdForms :
           claims_master =
               insert_claims(<<>>,
                   <<upload_claim_document(
                         stored_row(ids, form, encounter_type, paid_amount_aed), "A")>>,
                   TRUE)
    /\ rules_config =
           [t \in Tenants |->
               IF t = "A"
               THEN upsert_rules_config(<<>>, <<"Approval is required above AED 250">>,
                                        <<"Approval is required above AED 250">>)
               ELSE <<>>]
    /\ rule_engine = new_rule_engine
    /\ analytics = [key \in Tenants \X Range(error_categories) |-> <<>>]
    /\ run = [r \in Slots |-> IdleRun]
    /\ lifecycle = [runs |-> 0, claim_uploads |-> MaxClaimUploads,
                    rule_uploads |-> MaxRuleUploads, load_failures |-> 0]

SpecStored == InitStored /\ [][NextEngine]_vars

NationalIdInputs ==
    { <<"A", "B", "C", "D", "1", "2", "3", "4", "X", "X", "X", "X">>,
      <<"A", "B", "C", "D", "-", "1", "2", "3", "4">>,
      <<"a", "b", "c", "d", "1", "2", "3", "4">>,
      <<"A", "B", " ", "1">>,
      <<" ", " ">> }
MemberIdInputs ==
    { <<"X", "X", "A", "2", "3", "4", "0", "0", "0", "0">>,
      <<"X", "X", "A", "2", "3", "5", "0", "0", "0", "0">>,
      <<"A", "2", "3", "4", "0", "0", "0", "0">>,
      <<"X", "X", "A", "2", "3", "4", "0">>,
      <<"X", "A", "2", "3", "4", "X">>,
      <<"X", "A", "2", "3", "5", "X">>,
      <<"A", "2", "3", "4">>,
      <<"A", "2", "3">>,
      <<"x", "x", "a", "2", "3", "4", "0", "0", "0", "0">>,
      <<"X", "X", "-", "A", "2", "3", "4", "0", "0">> }
FacilityIdInputs ==
    { <<"9", "6", "G", "U", "D", "L", "M", "T">>,
      <<"9", "6", "g", "u", "d", "l", "m", "t">>,
      <<"9", "6", "-", "G", "U", "D", "L", "M", "T">>,
      <<"L", "M", "T">> }
UniqueIdInputs ==
    { <<"A", "B", "C", "D", "-", "A", "2", "3", "4", "-", "D", "L", "M", "T">>,
      <<"A", "B", "C", "D", "-", "A", "2", "3", "4">> }

InitIdentifiers ==
    /\ analytics_response = <<>>
    /\ analytics_request = <<>>
    /\ upload = <<>>
    /\ data_management = IdleDataManagement
    /\ \E unique_id \in UniqueIdInputs, national_id \in NationalIdInputs,
          member_id \in MemberIdInputs, facility_id \in FacilityIdInputs :
           LET row == [unique_id |-> unique_id,
                       encounter_type |-> OUTPATIENT,
                       national_id |-> national_id,
                       member_id |-> member_id,
                       facility_id |-> facility_id,
                       diagnosis_codes |-> diagnosis_cell(<<<<"R", "5", "1">>>>),
                       service_code |-> <<"S", "R", "V", "2", "0", "0", "3">>,
                       paid_amount_aed |-> 100,
                       approval_number |-> <<>>]
           IN  claims_master =
                   insert_claims(<<>>, <<upload_claim_document(row, "A")>>, TRUE)
    /\ rules_config =
           [t \in Tenants |->
               IF t = "A"
               THEN upsert_rules_config(<<>>, <<"Approval is required above AED 250">>,
                                        <<"Approval is required above AED 250">>)
               ELSE <<>>]
    /\ rule_engine = new_rule_engine
    /\ analytics = [key \in Tenants \X Range(error_categories) |-> <<>>]
    /\ run = [r \in Slots |-> IdleRun]
    /\ lifecycle = [runs |-> 0, claim_uploads |-> MaxClaimUploads,
                    rule_uploads |-> MaxRuleUploads, load_failures |-> 0]

SpecIdentifiers == InitIdentifiers /\ [][NextEngine]_vars

\* C26 as the specification states it: for each of national_id, member_id
\* and facility_id the identifier findings hold one charset finding if the
\* value has a character that is not a letter or a digit (a hyphen counts)
\* and none otherwise, and one case finding if the value has a lower-case
\* letter and none otherwise; for every stored claim, its unique_id
\* well-formed or not, and for the result of every claim a run evaluated.
\* The engine breaks it: see C26_HyphenInNationalIdNotFlagged.
C26_CharsetAndCaseFindingPerField ==
    LET alnum == Range(UpperChars) \cup Range(LowerChars) \cup Range(DigitChars)
        count(errors, kind, field) ==
            Cardinality({n \in DOMAIN errors :
                             errors[n].kind = kind /\ errors[n].field = field})
        as_claimed(errors, claim) ==
            \A field \in {"national_id", "member_id", "facility_id"} :
                /\ count(errors, "invalid_characters", field)
                       = IF \E i \in DOMAIN claim[field] : claim[field][i] \notin alnum
                         THEN 1 ELSE 0
                /\ count(errors, "not_uppercase", field)
                       = IF \E i \in DOMAIN claim[field] :
                                claim[field][i] \in Range(LowerChars)
                         THEN 1 ELSE 0
    IN  /\ \A k \in DOMAIN claims_master :
               as_claimed(_validate_id_formats(_dict_to_claim_record(claims_master[k])),
                          claims_master[k])
        /\ \A k \in DOMAIN run[1].processed :
               run[1].processed[k].llm /= <<>>
               => as_claimed(run_results(1)[k].technical_errors,
                             run[1].processed[k].claim_data)

\* C26: a run has evaluated the claim with national_id ABCD-1234 and
\* member_id XX-A23400, and its result has no charset finding for either,
\* although both hold a hyphen
C26_HyphenInNationalIdNotFlagged ==
    \E k \in DOMAIN run[1].processed :
        LET claim_data == run[1].processed[k].claim_data
            technical_errors == run_results(1)[k].technical_errors
        IN  /\ run[1].pc = "write"
            /\ run[1].processed[k].llm /= <<>>
            /\ claim_data.national_id = <<"A", "B", "C", "D", "-", "1", "2", "3", "4">>
            /\ claim_data.member_id = <<"X", "X", "-", "A", "2", "3", "4", "0", "0">>
            /\ \A n \in DOMAIN technical_errors :
                   ~(/\ technical_errors[n].kind = "invalid_characters"
                     /\ technical_errors[n].field \in {"national_id", "member_id"})

\* C28: for a claim with a pattern-valid unique_id, the findings of the
\* middle-segment check are: with an upper-cased member_id of 8 or more
\* characters, one mismatch finding if segment 2 differs from its characters
\* 3 to 6 and none otherwise; with 4 to 7 characters, one not-found finding if
\* segment 2 is not a substring of it and none otherwise; with fewer than 4,
\* one length finding; never a finding of another case, so at most one.
C28_MiddleSegmentCases ==
    LET count(errors, kind, field) ==
            Cardinality({n \in DOMAIN errors :
                             errors[n].kind = kind /\ errors[n].field = field})
        as_claimed(errors, claim) ==
            LET member_upper == str_upper(claim.member_id)
                segment == SubSeq(claim.unique_id, 6, 9)
                mismatch == count(errors, "segment_mismatch", "middle")
                not_found == count(errors, "segment_not_found", "middle")
                too_short == count(errors, "id_too_short", "member_id")
            IN  /\ Len(member_upper) >= 8
                   => /\ mismatch = IF segment /= SubSeq(member_upper, 3, 6) THEN 1 ELSE 0
                      /\ not_found = 0 /\ too_short = 0
                /\ Len(member_upper) \in 4..7
                   => /\ not_found = IF str_contains(segment, member_upper) THEN 0 ELSE 1
                      /\ mismatch = 0 /\ too_short = 0
                /\ Len(member_upper) < 4
                   => too_short = 1 /\ mismatch = 0 /\ not_found = 0
                /\ mismatch + not_found + too_short <= 1
    IN  /\ \A k \in DOMAIN claims_master :
               pattern_match(claims_master[k].unique_id)
               => as_claimed(_validate_id_formats(_dict_to_claim_record(claims_master[k])),
                             claims_master[k])
        /\ \A k \in DOMAIN run[1].processed :
               (/\ run[1].processed[k].llm /= <<>>
                /\ pattern_match(run[1].processed[k].claim_data.unique_id))
               => as_claimed(run_results(1)[k].technical_errors,
                             run[1].processed[k].claim_data)

\* C28: a run has evaluated the claim ABCD-A234-DLMT with member_id A2340000:
\* eight characters that hold A234, but not at positions 3 to 6, and the
\* result has the mismatch finding that names 3400
C28_EightCharactersAreComparedByPosition ==
    \E k \in DOMAIN run[1].processed :
        LET claim_data == run[1].processed[k].claim_data
            technical_errors == run_results(1)[k].technical_errors
        IN  /\ run[1].pc = "write"
            /\ run[1].processed[k].llm /= <<>>
            /\ claim_data.member_id = <<"A", "2", "3", "4", "0", "0", "0", "0">>
            /\ str_contains(<<"A", "2", "3", "4">>, claim_data.member_id)
            /\ \E n \in DOMAIN technical_errors :
                   /\ technical_errors[n].kind = "segment_mismatch"
                   /\ technical_errors[n].field = "middle"
                   /\ technical_errors[n].text = <<"A", "2", "3", "4">>
                   /\ technical_errors[n].text2 = <<"3", "4", "0", "0">>
(***************************************************************************)
(* Runs over one claim uploaded from a file that gives the approval_number *)
(* in any of the spellings below; the upload blanks NA, N/A, NAN, NONE and *)
(* NULL in any case when nothing surrounds them and stores the others      *)
(***************************************************************************)
FileApprovalInputs ==
    { <<>>, <<" ", " ">>,
      <<"N", "A">>, <<"n", "/", "a">>, <<"N", "o", "n", "e">>, <<"N", "U", "L", "L">>,
      <<"O", "B", "T", "A", "I", "N", " ", "A", "P", "P", "R", "O", "V", "A", "L">>,
      <<"p", "e", "n", "d", "i", "n", "g">>,
      <<"N", "A", "N">>, <<"n", "a", "n">>, <<" ", "N", "A", " ">>, <<" ", "N", "A", "N">>,
      <<"N">>, <<"A", "P", "P", "1", "2", "3">> }

InitApproval ==
    /\ analytics_response = <<>>
    /\ analytics_request = <<>>
    /\ upload = <<>>
    /\ data_management = IdleDataManagement
    /\ \E approval_number \in FileApprovalInputs, service_code \in ServiceInputs,
          paid_amount_aed \in AmountInputs :
           LET row == [unique_id |-> <<"A", "B", "C", "D", "-", "A", "2", "3", "4", "-",
                                       "D", "L", "M", "T">>,
                       encounter_type |-> OUTPATIENT,
                       national_id |-> <<"A", "B", "C", "D", "1", "2", "3", "4",
                                         "X", "X", "X", "X">>,
                       member_id |-> <<"X", "X", "A", "2", "3", "4", "0", "0", "0", "0">>,
                       facility_id |-> <<"9", "6", "G", "U", "D", "L", "M", "T">>,
                       diagnosis_codes |-> diagnosis_cell(<<<<"R", "5", "1">>>>),
                       service_code |-> service_code,
                       paid_amount_aed |-> paid_amount_aed,
                       approval_number |-> approval_number]
           IN  claims_master =
                   insert_claims(<<>>, <<upload_claim_document(row, "A")>>, TRUE)
    /\ rules_config =
           [t \in Tenants |->
               IF t = "A"
               THEN upsert_rules_config(<<>>, <<"Approval is required above AED 250">>,
                                        <<"Approval is required above AED 250">>)
               ELSE <<>>]
    /\ rule_engine = new_rule_engine
    /\ analytics = [key \in Tenants \X Range(error_categories) |-> <<>>]
    /\ run = [r \in Slots |-> IdleRun]
    /\ lifecycle = [runs |-> 0, claim_uploads |-> MaxClaimUploads,
                    rule_uploads |-> MaxRuleUploads, load_failures |-> 0]

SpecApproval == InitApproval /\ [][NextEngine]_vars

\* C27 as the specification states it: for an evaluated claim with at least
\* one approval reason, the result has approval findings if and only if the
\* stored approval_number is empty, whitespace only, or equal ignoring case
\* to one of NA, N/A, NONE, NULL, OBTAIN APPROVAL, PENDING.
\* Fails for the stored value " NA ".
C27_FindingsIffListedPlaceholder ==
    \A k \in DOMAIN run[1].processed :
        LET claim_data == run[1].processed[k].claim_data
            technical_errors == run_results(1)[k].technical_errors
            reasons == approval_reasons(rule_engine.technical_rules[1],
                                        _dict_to_claim_record(claim_data))
        IN  (run[1].processed[k].llm /= <<>> /\ reasons /= <<>>)
            => ((\E n \in DOMAIN technical_errors :
                     technical_errors[n].kind = "approval_required")
                <=> \/ str_strip(claim_data.approval_number) = <<>>
                    \/ str_upper(claim_data.approval_number) \in invalid_values)

\* C27, amended: for an evaluated claim the result has approval findings,
\* one per reason, if and only if there is a reason and the stored
\* approval_number, with surrounding whitespace removed, is empty or equal
\* ignoring case to one of NA, N/A, NONE, NULL, OBTAIN APPROVAL, PENDING, or
\* the stored value as it is equals NAN ignoring case; otherwise none.
C27_FindingsIffPlaceholderOrNan ==
    \A k \in DOMAIN run[1].processed :
        LET claim_data == run[1].processed[k].claim_data
            technical_errors == run_results(1)[k].technical_errors
            reasons == approval_reasons(rule_engine.technical_rules[1],
                                        _dict_to_claim_record(claim_data))
            findings == {n \in DOMAIN technical_errors :
                             technical_errors[n].kind = "approval_required"}
            absent == \/ str_strip(claim_data.approval_number) = <<>>
                      \/ str_upper(str_strip(claim_data.approval_number)) \in invalid_values
                      \/ str_upper(claim_data.approval_number) = <<"N", "A", "N">>
        IN  run[1].processed[k].llm /= <<>>
            => Cardinality(findings) = IF absent THEN Len(reasons) ELSE 0

\* C27: a run has evaluated the claim that the file gave with the
\* approval_number " NA ", paid above the threshold: the upload stored the
\* value as given, the record was built with it, it is none of the listed
\* placeholders as it stands, and the result has the approval finding
C27_PaddedPlaceholderIsTreatedAsAbsent ==
    \E k \in DOMAIN run[1].processed :
        LET claim_data == run[1].processed[k].claim_data
            technical_errors == run_results(1)[k].technical_errors
        IN  /\ run[1].pc = "write"
            /\ run[1].processed[k].llm /= <<>>
            /\ claim_data.approval_number = <<" ", "N", "A", " ">>
            /\ upload_approval_number(<<" ", "N", "A", " ">>) = <<" ", "N", "A", " ">>
            /\ claim_data.paid_amount_aed > paid_amount_threshold
            /\ _dict_to_claim_record(claim_data).approval_number = <<" ", "N", "A", " ">>
            /\ str_upper(claim_data.approval_number) \notin invalid_values
            /\ ~has_valid_approval(claim_data.approval_number)
            /\ \E n \in DOMAIN technical_errors :
                   /\ technical_errors[n].kind = "approval_required"
                   /\ technical_errors[n].field = "amount"
(***************************************************************************)
(* Validation runs of tenant A, GET /analytics/{tenant_id} and             *)
(* POST /debug/clear-claims/{tenant_id} in any order                       *)
(***************************************************************************)
\* debug_clear_claims (main.py): delete_many on the tenant's claims; the
\* analytics collection is not touched
debug_clear_claims(tenant_id) ==
    /\ claims_master' = SelectSeq(claims_master, LAMBDA doc : doc.tenant_id /= tenant_id)
    /\ UNCHANGED <<data_management, upload, analytics_request, analytics_response, rules_config, rule_engine, analytics, run, lifecycle>>

\* DELETE /claims/{tenant_id} (main.py), MongoDB.clear_tenant_data up to its
\* second await: delete_many on the tenant's claims
clear_tenant_data(tenant_id) ==
    /\ data_management.clearing = <<>>
    /\ claims_master' = SelectSeq(claims_master, LAMBDA doc : doc.tenant_id /= tenant_id)
    /\ data_management' = [data_management EXCEPT !.clearing = <<tenant_id>>]
    /\ UNCHANGED <<upload, analytics_request, analytics_response, rules_config,
                   rule_engine, analytics, run, lifecycle>>

\* the second await of MongoDB.clear_tenant_data: delete_many on the tenant's
\* analytics records; the rules are kept, and the route answers with the
\* message (given as the parts of its f-string)
clear_tenant_data_delete_analytics ==
    /\ data_management.clearing /= <<>>
    /\ LET tenant_id == data_management.clearing[1] IN
           /\ analytics' = [key \in DOMAIN analytics |->
                                IF key[1] = tenant_id THEN <<>> ELSE analytics[key]]
           /\ data_management' =
                  [data_management EXCEPT
                      !.clearing = <<>>,
                      !.response = <<[message |-> <<"All data cleared for tenant: ",
                                                   tenant_id>>]>>]
    /\ UNCHANGED <<upload, analytics_request, analytics_response, claims_master,
                   rules_config, rule_engine, run, lifecycle>>

\* a delete_many of MongoDB.clear_tenant_data raises: the first (n = 0,
\* nothing is deleted), or the second (n = 1, the claims are deleted and the
\* analytics records stay).  The route answers 500.
clear_tenant_data_fails(tenant_id, n) ==
    /\ \/ data_management.clearing = <<>> /\ n = 0
       \/ data_management.clearing = <<tenant_id>> /\ n = 1
    /\ data_management' =
           [data_management EXCEPT
               !.clearing = <<>>,
               !.response = <<error_response(500, "Failed to clear data")>>]
    /\ UNCHANGED <<upload, analytics_request, analytics_response, claims_master,
                   rules_config, rule_engine, analytics, run, lifecycle>>

\* The aggregation pipeline of remove_duplicates: one group for each
\* unique_id that more than one document of the tenant holds, with the
\* positions of these documents, in the order of the first of them.
duplicate_groups(coll, tenant_id) ==
    LET docs(k) == {j \in DOMAIN coll : /\ coll[j].tenant_id = tenant_id
                                        /\ coll[j].unique_id = coll[k].unique_id}
        IsFirstOfGroup(k) ==
            /\ coll[k].tenant_id = tenant_id
            /\ \A j \in docs(k) : k <= j
            /\ Cardinality(docs(k)) > 1
        firsts == SelectSeq([k \in DOMAIN coll |-> k], IsFirstOfGroup)
    IN  [n \in DOMAIN firsts |->
            [_id |-> coll[firsts[n]].unique_id, count |-> Cardinality(docs(firsts[n]))]]

\* what remove_duplicates answers
duplicates_removed(tenant_id, groups, deleted_count) ==
    [message |-> "Duplicates removed", tenant_id |-> tenant_id,
     duplicate_groups |-> groups, claims_deleted |-> deleted_count]

\* DELETE /claims/{tenant_id}/duplicates (main.py) up to the end of its
\* aggregation: with no group the loop is skipped and the route answers.
\* The unique index on (tenant_id, unique_id) leaves the collection without
\* two documents of one group, so that this is the case met.
remove_duplicates(tenant_id) ==
    /\ data_management.removing = <<>>
    /\ LET duplicates == duplicate_groups(claims_master, tenant_id) IN
           data_management' =
               IF duplicates = <<>>
               THEN [data_management EXCEPT
                        !.response = <<duplicates_removed(tenant_id, 0, 0)>>]
               ELSE [data_management EXCEPT
                        !.removing = <<[tenant_id |-> tenant_id,
                                        duplicates |-> duplicates,
                                        done |-> 0, deleted_count |-> 0]>>]
    /\ UNCHANGED <<upload, analytics_request, analytics_response, claims_master,
                   rules_config, rule_engine, analytics, run, lifecycle>>

\* one turn of the loop of remove_duplicates: delete_many on the documents
\* of the next group but the first of them; after the last group the route
\* answers
remove_duplicates_delete_many ==
    /\ data_management.removing /= <<>>
    /\ LET frame == data_management.removing[1]
           dup == frame.duplicates[frame.done + 1]
           InGroup(k) == /\ claims_master[k].tenant_id = frame.tenant_id
                         /\ claims_master[k].unique_id = dup._id
           ids_to_delete ==
               {k \in DOMAIN claims_master :
                    InGroup(k) /\ \E j \in 1..(k - 1) : InGroup(j)}
           kept == SelectSeq([k \in DOMAIN claims_master |-> k],
                             LAMBDA k : k \notin ids_to_delete)
           deleted_count == frame.deleted_count + Cardinality(ids_to_delete)
       IN  /\ claims_master' = [n \in DOMAIN kept |-> claims_master[kept[n]]]
           /\ data_management' =
                  IF frame.done + 1 = Len(frame.duplicates)
                  THEN [data_management EXCEPT
                           !.removing = <<>>,
                           !.response =
                               <<duplicates_removed(frame.tenant_id,
                                                    Len(frame.duplicates),
                                                    deleted_count)>>]
                  ELSE [data_management EXCEPT
                           !.removing = <<[frame EXCEPT
                                              !.done = @ + 1,
                                              !.deleted_count = deleted_count]>>]
    /\ UNCHANGED <<upload, analytics_request, analytics_response, rules_config,
                   rule_engine, analytics, run, lifecycle>>

\* the aggregation of remove_duplicates raises (no call in flight yet), or a
\* delete_many of its loop does.  The route answers 500.
remove_duplicates_fails(tenant_id) ==
    /\ \/ data_management.removing = <<>>
       \/ data_management.removing /= <<>>
          /\ data_management.removing[1].tenant_id = tenant_id
    /\ data_management' =
           [data_management EXCEPT
               !.removing = <<>>,
               !.response = <<error_response(500, "Failed to remove duplicates")>>]
    /\ UNCHANGED <<upload, analytics_request, analytics_response, claims_master,
                   rules_config, rule_engine, analytics, run, lifecycle>>

\* MongoDB.update_claim_validation and MongoDB.bulk_update_claims are called
\* by no route and no service: the writes of a run are those of
\* update_claims_with_results.

InitRecomputed ==
    /\ analytics_response = <<>>
    /\ analytics_request = <<>>
    /\ upload = <<>>
    /\ data_management = IdleDataManagement
    /\ \E file \in ClaimFiles :
           claims_master =
               insert_claims(<<>>,
                   [k \in DOMAIN file |-> upload_claim_document(file[k], "A")], TRUE)
    /\ rules_config =
           [t \in Tenants |->
               IF t = "A"
               THEN upsert_rules_config(<<>>, <<"Approval is required above AED 250">>,
                                        <<"Approval is required above AED 250">>)
               ELSE <<>>]
    /\ rule_engine = new_rule_engine
    /\ analytics = [key \in Tenants \X Range(error_categories) |-> <<>>]
    /\ run = [r \in Slots |-> IdleRun]
    /\ lifecycle = [runs |-> 0, claim_uploads |-> MaxClaimUploads,
                    rule_uploads |-> MaxRuleUploads, load_failures |-> 0]

NextRecomputed ==
    \/ validate_claims(1, "A")
    \/ load_tenant_rules(1)
    \/ fetch_pending_claims(1)
    \/ process_claim(1)
    \/ llm_returns(1, _default_response)
    \/ update_claims_with_results(1)
    \/ validate_claims_analytics(1)
    \/ validate_claims_upsert_analytics(1)
    \/ validate_claims_returns(1)
    \/ \E tenant_id \in Tenants : get_analytics(tenant_id)
    \/ get_analytics_upsert_analytics
    \/ \E tenant_id \in Tenants : debug_clear_claims(tenant_id)
    \/ \E tenant_id \in Tenants : clear_tenant_data(tenant_id)
    \/ clear_tenant_data_delete_analytics
    \/ \E tenant_id \in Tenants, n \in 0..1 : clear_tenant_data_fails(tenant_id, n)
    \/ \E tenant_id \in Tenants : remove_duplicates(tenant_id)
    \/ \E tenant_id \in Tenants : remove_duplicates_fails(tenant_id)

SpecRecomputed == InitRecomputed /\ [][NextRecomputed]_vars

\* the unique index at work: no two documents of a tenant share a unique_id,
\* so that remove_duplicates finds no group and its loop deletes nothing
NoDuplicateClaims ==
    /\ \A tenant_id \in Tenants : duplicate_groups(claims_master, tenant_id) = <<>>
    /\ data_management.removing = <<>>

\* the same calls with the loop of remove_duplicates
NextDataManagement ==
    \/ NextRecomputed
    \/ remove_duplicates_delete_many

SpecDataManagement == InitRecomputed /\ [][NextDataManagement]_vars

\* the record of a category over the claims the tenant has in the collection
current_record(coll, tenant_id, category) ==
    analytics_record(get_claims_by_tenant(coll, tenant_id, 0, analytics_limit),
                     category)

\* C29 as the specification states it: every step in which generate_analytics
\* returns for a tenant (in the analytics request or at the end of a
\* validation run, after its upsert or, with nothing to store, after its
\* read) leaves, for each category, exactly the record of the tenant's
\* current claims in that category: its count and paid total when the
\* category has a claim, no record when it has none.
\* The service breaks it: see C29_RecordOfAnEmptiedCategoryStays.
C29_StoredRecordsAreTheCurrentDistribution ==
    [][\A tenant_id \in Tenants :
           (\/ get_analytics(tenant_id) /\ analytics_request' = <<>>
            \/ get_analytics_upsert_analytics
               /\ analytics_request[1].tenant_id = tenant_id
            \/ validate_claims_analytics(1) /\ run'[1].pc = "responded"
               /\ run[1].tenant_id = tenant_id
            \/ validate_claims_upsert_analytics(1) /\ run[1].tenant_id = tenant_id)
           => \A category \in Range(error_categories) :
                  analytics'[<<tenant_id, category>>]
                      = current_record(claims_master', tenant_id, category)]_vars

\* C29: a run has validated all claims of tenant A and generate_analytics
\* has returned after it (the records of the categories with claims are the
\* current ones), none of the claims is in "No error", and the "No error"
\* record stored while the claims were pending is still there
C29_RecordOfAnEmptiedCategoryStays ==
    /\ run[1].pc = "responded"
    /\ run[1].all_claims /= <<>>
    /\ analytics_request = <<>>
    /\ \E k \in DOMAIN claims_master : claims_master[k].tenant_id = "A"
    /\ \A k \in DOMAIN claims_master :
           claims_master[k].tenant_id = "A"
           => claims_master[k].validated_at /= 0 /\ claims_master[k].error_type /= NO_ERROR
    /\ \E category \in Range(error_categories) :
           /\ current_record(claims_master, "A", category) /= <<>>
           /\ analytics[<<"A", category>>] = current_record(claims_master, "A", category)
    /\ current_record(claims_master, "A", NO_ERROR) = <<>>
    /\ analytics[<<"A", NO_ERROR>>] /= <<>>
    /\ analytics[<<"A", NO_ERROR>>][1].claim_count
           = Len(SelectSeq(claims_master, LAMBDA doc : doc.tenant_id = "A"))
(***************************************************************************)
(* Runs over one claim that carries one diagnosis with a required service, *)
(* at a facility of each type, with any of the required services           *)
(***************************************************************************)
RequiredServiceInputs == {<<"S", "R", "V", "2", "0", "0", "1">>, <<"S", "R", "V", "2", "0", "0", "5">>, <<"S", "R", "V", "2", "0", "0", "6">>, <<"S", "R", "V", "2", "0", "0", "7">>, <<"S", "R", "V", "2", "0", "0", "8">>}
FacilityInputs ==
    { <<"0", "D", "B", "Y", "E", "6", "K", "P">>, <<"2", "X", "K", "S", "Z", "K", "4", "T">>,
      <<"7", "R", "1", "V", "M", "I", "G", "X">>, <<"9", "6", "G", "U", "D", "L", "M", "T">> }

InitRequired ==
    /\ analytics_response = <<>>
    /\ analytics_request = <<>>
    /\ upload = <<>>
    /\ data_management = IdleDataManagement
    /\ \E diagnosis \in DOMAIN diagnosis_service_requirements,
          service_code \in RequiredServiceInputs, facility_id \in FacilityInputs,
          encounter_type \in EncounterType :
           LET row == [unique_id |-> <<"A", "B", "C", "D", "-", "A", "2", "3", "4", "-">>
                                         \o str_last(facility_id, 4),
                       encounter_type |-> encounter_type,
                       national_id |-> <<"A", "B", "C", "D", "1", "2", "3", "4",
                                         "X", "X", "X", "X">>,
                       member_id |-> <<"X", "X", "A", "2", "3", "4", "0", "0", "0", "0">>,
                       facility_id |-> facility_id,
                       diagnosis_codes |-> diagnosis_cell(<<diagnosis>>),
                       service_code |-> service_code,
                       paid_amount_aed |-> 100,
                       approval_number |-> <<"A", "P", "P", "1", "2", "3">>]
           IN  claims_master = insert_claims(<<>>, <<upload_claim_document(row, "A")>>, TRUE)
    /\ rules_config =
           [t \in Tenants |->
               IF t = "A"
               THEN upsert_rules_config(<<>>, <<"Approval is required above AED 250">>,
                                        <<"Approval is required above AED 250">>)
               ELSE <<>>]
    /\ rule_engine = new_rule_engine
    /\ analytics = [key \in Tenants \X Range(error_categories) |-> <<>>]
    /\ run = [r \in Slots |-> IdleRun]
    /\ lifecycle = [runs |-> 0, claim_uploads |-> MaxClaimUploads,
                    rule_uploads |-> MaxRuleUploads, load_failures |-> 0]

SpecRequired == InitRequired /\ [][NextEngine]_vars

\* C30 as the specification implies it: under the built-in configuration,
\* for every diagnosis code with a required-service set there are a service
\* code, a registered facility and an encounter type with which a claim that
\* carries only that diagnosis gets no medical finding; and every evaluated
\* claim that carries the required service of its diagnosis, at a general
\* hospital as an outpatient, has no medical finding.
\* The configuration breaks it: see C30_UrineCultureAuthorizedNowhere.
C30_EveryRequiredServiceIsSatisfiable ==
    LET rules == parse_medical_rules("")
        services == Range(inpatient_only_services) \cup Range(outpatient_only_services)
                    \cup UNION {Range(facility_service_mapping[t]) :
                                    t \in DOMAIN facility_service_mapping}
        claim(diagnosis, service_code, facility_id, encounter_type) ==
            [diagnosis_codes |-> <<diagnosis>>, service_code |-> service_code,
             facility_id |-> facility_id, encounter_type |-> encounter_type]
    IN  /\ \A diagnosis \in DOMAIN diagnosis_service_requirements :
               \E service_code \in services, n \in DOMAIN facility_registry,
                  encounter_type \in EncounterType :
                   _validate_medical_rules(rules,
                       claim(diagnosis, service_code, facility_registry[n][1],
                             encounter_type)) = <<>>
        /\ \A k \in DOMAIN run[1].processed :
               LET claim_data == run[1].processed[k].claim_data IN
               (/\ run[1].processed[k].llm /= <<>>
                /\ claim_data.encounter_type = OUTPATIENT
                /\ facility_type_of(rules, claim_data.facility_id) = <<"GENERAL_HOSPITAL">>
                /\ InSeq(claim_data.service_code,
                         diagnosis_service_requirements[claim_data.diagnosis_codes[1]]))
               => run_results(1)[k].medical_errors = <<>>

\* C30: a run has evaluated the claim with diagnosis N39.0 and its required
\* service SRV2005 at a general hospital as an outpatient, and the result has
\* the finding that SRV2005 is not authorized there; and no service, registered
\* facility and encounter type leave a claim with N39.0 without medical finding
C30_UrineCultureAuthorizedNowhere ==
    /\ run[1].pc = "write"
    /\ \E k \in DOMAIN run[1].processed :
           LET claim_data == run[1].processed[k].claim_data
               medical_errors == run_results(1)[k].medical_errors
           IN  /\ run[1].processed[k].llm /= <<>>
               /\ claim_data.diagnosis_codes = <<<<"N", "3", "9", ".", "0">>>>
               /\ claim_data.service_code = <<"S", "R", "V", "2", "0", "0", "5">>
               /\ claim_data.encounter_type = OUTPATIENT
               /\ claim_data.facility_id = <<"9", "6", "G", "U", "D", "L", "M", "T">>
               /\ Len(medical_errors) = 1
               /\ medical_errors[1].kind = "service_not_authorized"
               /\ medical_errors[1].code = <<"S", "R", "V", "2", "0", "0", "5">>
    /\ \A t \in DOMAIN facility_service_mapping :
           ~InSeq(<<"S", "R", "V", "2", "0", "0", "5">>, facility_service_mapping[t])
    /\ \A service_code \in
              Range(inpatient_only_services) \cup Range(outpatient_only_services),
          n \in DOMAIN facility_registry, encounter_type \in EncounterType :
           _validate_medical_rules(parse_medical_rules(""),
               [diagnosis_codes |-> <<<<"N", "3", "9", ".", "0">>>>, service_code |-> service_code,
                facility_id |-> facility_registry[n][1],
                encounter_type |-> encounter_type]) /= <<>>

====
